---- MODULE Spec2Model ----
(***************************************************************************)
(* Verification model of ops-genaie: OpenAPI ingestion (FileProcessor),    *)
(* the stand-alone OpenAPIParser, the upload handler of main() with the    *)
(* database rows and embeddings it writes, LLMHandler.get_response         *)
(* (registry, select, parse, tool lookup, coercion, invocation; one query, *)
(* consecutive queries, and queries next to a concurrent set_tools) and    *)
(* the HTTP invokers.                                                      *)
(*                                                                         *)
(* Python values are tagged records, so that values of different Python   *)
(* types are comparable:                                                   *)
(*   str  -> [s |-> <<seg1, ..., segN>>]   the string split on '/'         *)
(*   dict -> [d |-> function from key to value]                            *)
(*   list -> [l |-> sequence of values]                                    *)
(*   bool -> [b |-> BOOLEAN]      None -> [none |-> TRUE]                  *)
(*   int  -> [i |-> n]            float -> [f |-> the value in tenths]     *)
(* A raised exception is [exc |-> <class name>].                           *)
(***************************************************************************)
EXTENDS Integers, Sequences, FiniteSets, TLC

VARIABLES
    components,     \* data.get('components', {}) of the document being resolved
    schema_in,      \* the schema found at a request-body / response position
    body_res,       \* FileProcessor: request-body schema after lines 150-152
    resp_res,       \* FileProcessor: response schema after line 170
    parser_res,     \* OpenAPIParser.resolve_schema(schema_in)
    ref_res,        \* OpenAPIParser.resolve_ref(schema_in['$ref'])
    again_res,      \* the returned schema resolved a second time
    doc,            \* yaml.safe_load(f) handed to parse_yaml
    apis,           \* what parse_yaml returned (or the exception it raised)
    py_pc,          \* position of the ingestion run
    uploaded_files, \* the rows of the table uploaded_files
    apis_table,     \* the rows of the table apis
    collection,     \* the entries of the Chroma collection api_embeddings
    uploads,        \* how often the document was processed
    content,        \* the raw completion text seen by get_response
    json_candidates,\* extract_all_json(content)
    json_str,       \* the candidate that parsed
    result,         \* json.loads(json_str)
    llm_out,        \* what get_response returned (or the exception it raised)
    llm_pc,         \* position of the get_response run
    tool_registry,  \* self._tool_registry
    tool_name,      \* result.get('tool_name')
    params,         \* result.get('parameters', {}), coerced in place
    req_body,       \* request_body = result.get('request_body', None)
    invoked,        \* the calls tool_func(**kwargs) made by the query
    tools,          \* the 'tools' argument of the get_response call
    tool_infos,     \* the manifest built from the registry for the prompt
    tool_func,      \* tool_func = self._tool_registry.get(tool_name)
    chat_calls,     \* how often the query called ollama.chat
    queries,        \* the number of the query the handler is serving
    invoker,        \* which invoker runs: main.call_api, operations_genaie, archive
    http_method,    \* the HTTP method of the operation
    full_path,      \* the URL template of the operation
    param_values,   \* the values supplied for the path parameters
    request_body_dict, \* the request body of the plan (None: the plan has none)
    url,            \* the URL after the substitution step
    http_requests,  \* the HTTP requests issued so far
    http_outcome,   \* what the HTTP call did: a transport failure or a response
    api_result,     \* what the invoker returned to its caller
    inv_pc          \* position of the invocation

schemaVars == <<components, schema_in, body_res, resp_res, parser_res, ref_res, again_res>>
extractVars == <<doc, apis, py_pc, uploaded_files, apis_table, collection, uploads>>
llmVars == <<content, json_candidates, json_str, result, llm_out, llm_pc,
             tool_registry, tool_name, params, req_body, invoked,
             tools, tool_infos, tool_func, chat_calls, queries>>
invokeVars == <<invoker, http_method, full_path, param_values, request_body_dict, url,
                http_requests, http_outcome, api_result, inv_pc>>
vars == <<schemaVars, extractVars, llmVars, invokeVars>>

----------------------------------------------------------------------------
(* Python values *)

Str(x) == [s |-> <<x>>]
Dict(f) == [d |-> f]
List(q) == [l |-> q]
Bool(x) == [b |-> x]
PyInt(n) == [i |-> n]
PyFloat(tenths) == [f |-> tenths]
None == [none |-> TRUE]
EmptyDict == [d |-> <<>>]
EmptyList == [l |-> <<>>]
Unset == [unset |-> TRUE]
Raise(cls) == [exc |-> cls]

IsStr(v) == "s" \in DOMAIN v
IsDict(v) == "d" \in DOMAIN v
IsList(v) == "l" \in DOMAIN v
IsExc(v) == "exc" \in DOMAIN v
IsBool(v) == "b" \in DOMAIN v
\* isinstance(v, int): bool is a subclass of int
IsInt(v) == "i" \in DOMAIN v \/ IsBool(v)
IsFloat(v) == "f" \in DOMAIN v

\* Python truthiness ('not x' is ~Truthy(x))
Truthy(v) ==
    IF IsStr(v) THEN v.s # <<"">>
    ELSE IF IsDict(v) THEN DOMAIN v.d # {}
    ELSE IF IsList(v) THEN Len(v.l) > 0
    ELSE IF "b" \in DOMAIN v THEN v.b
    ELSE IF "i" \in DOMAIN v THEN v.i # 0
    ELSE IF "f" \in DOMAIN v THEN v.f # 0
    ELSE FALSE

HasKey(v, k) == k \in DOMAIN v.d
DictGet(v, k, default) == IF k \in DOMAIN v.d THEN v.d[k] ELSE default
\* a.update(b): the keys of b overwrite those of a
DictUpdate(a, b) == [d |-> [k \in (DOMAIN a.d) \cup (DOMAIN b.d) |->
                            IF k \in DOMAIN b.d THEN b.d[k] ELSE a.d[k]]]
DictSet(a, k, v) == [d |-> [j \in (DOMAIN a.d) \cup {k} |-> IF j = k THEN v ELSE a.d[j]]]

\* '#/components/schemas/<Name>' and the node {'$ref': ...} holding it
Ref(name) == [s |-> <<"#", "components", "schemas", name>>]
RefNode(name) == Dict("$ref" :> Ref(name))

----------------------------------------------------------------------------
(* Bounds *)

\* Frames available to a recursive resolution before the interpreter raises
\* RecursionError; every acyclic input of the model needs fewer.
RecursionLimit == 4

\* Longest completion text, in characters of the text alphabet
MaxLen == 6

----------------------------------------------------------------------------
(* FileProcessor.resolve_schema_reference *)

\* ref.startswith('#/components/schemas/')
StartsWithSchemas(ref) ==
    /\ Len(ref.s) >= 4
    /\ ref.s[1] = "#" /\ ref.s[2] = "components" /\ ref.s[3] = "schemas"

\* an exception raised by a callee leaves through every caller
FirstExc(vals) == IF \E v \in vals : IsExc(v) THEN CHOOSE v \in vals : IsExc(v) ELSE Unset

RECURSIVE resolve_schema_reference(_, _, _)
RECURSIVE AllOfFold(_, _, _, _)

\* lines 33-41: the loop over schema['allOf'], acc is resolved_schema
AllOfFold(items, acc, comps, fuel) ==
    IF items = <<>> THEN acc
    ELSE LET item == Head(items) IN
         IF IsDict(item) /\ HasKey(item, "$ref")
         THEN LET ref_schema == resolve_schema_reference(item.d["$ref"], comps, fuel - 1) IN
              IF IsExc(ref_schema) THEN ref_schema
              ELSE IF IsDict(ref_schema)
                   THEN AllOfFold(Tail(items), DictUpdate(acc, ref_schema), comps, fuel)
                   ELSE AllOfFold(Tail(items), acc, comps, fuel)
         ELSE IF IsDict(item)
              THEN AllOfFold(Tail(items), DictUpdate(acc, item), comps, fuel)
              ELSE AllOfFold(Tail(items), acc, comps, fuel)

\* lines 47-52: the loop over schema['properties']
ResolveProperties(value, comps, fuel) ==
    Dict([p \in DOMAIN value.d |->
            IF IsDict(value.d[p]) /\ HasKey(value.d[p], "$ref")
            THEN resolve_schema_reference(value.d[p].d["$ref"], comps, fuel - 1)
            ELSE value.d[p]])

\* lines 44-58: the loop over the keys of a direct schema definition
ResolveDirect(schema, comps, fuel) ==
    LET out == [key \in DOMAIN schema.d |->
                  LET value == schema.d[key] IN
                  IF key = "properties" THEN ResolveProperties(value, comps, fuel)
                  ELSE IF IsDict(value) /\ HasKey(value, "$ref")
                       THEN resolve_schema_reference(value.d["$ref"], comps, fuel - 1)
                       ELSE value]
        inner == UNION {IF key = "properties" THEN {out[key].d[p] : p \in DOMAIN out[key].d}
                        ELSE {out[key]} : key \in DOMAIN out}
    IN IF FirstExc(inner) # Unset THEN FirstExc(inner) ELSE Dict(out)

resolve_schema_reference(ref, comps, fuel) ==
    IF fuel = 0 THEN Raise("RecursionError")
    ELSE IF ~Truthy(ref) \/ ~IsStr(ref) \/ ~StartsWithSchemas(ref) THEN ref
    ELSE LET schema_name == ref.s[Len(ref.s)]
             schema == DictGet(DictGet(comps, "schemas", EmptyDict), schema_name, EmptyDict)
         IN IF ~Truthy(schema) THEN ref
            ELSE IF HasKey(schema, "allOf")
                 THEN AllOfFold(schema.d["allOf"].l, EmptyDict, comps, fuel)
                 ELSE ResolveDirect(schema, comps, fuel)

(* FileProcessor.resolve_response_schema *)
RECURSIVE resolve_response_schema(_, _)
resolve_response_schema(schema, comps) ==
    IF ~Truthy(schema) THEN schema
    ELSE IF IsDict(schema)
    THEN IF HasKey(schema, "$ref")
         THEN resolve_schema_reference(schema.d["$ref"], comps, RecursionLimit)
         ELSE LET out == [key \in DOMAIN schema.d |->
                            IF key = "items" /\ IsDict(schema.d[key])
                            THEN resolve_response_schema(schema.d[key], comps)
                            ELSE schema.d[key]]
                  inner == {out[key] : key \in DOMAIN out}
              IN IF FirstExc(inner) # Unset THEN FirstExc(inner) ELSE Dict(out)
    ELSE IF IsList(schema)
    THEN LET out == [i \in 1..Len(schema.l) |-> resolve_response_schema(schema.l[i], comps)]
             inner == {out[i] : i \in 1..Len(schema.l)}
         IN IF FirstExc(inner) # Unset THEN FirstExc(inner) ELSE List(out)
    ELSE schema

\* parse_yaml lines 150-152: the request-body schema is resolved only when
\* the schema itself is a reference node
ResolveRequestBody(request_body, comps) ==
    IF IsDict(request_body) /\ HasKey(request_body, "$ref")
    THEN resolve_schema_reference(request_body.d["$ref"], comps, RecursionLimit)
    ELSE request_body

----------------------------------------------------------------------------
(* OpenAPIParser (openapi_yaml_parser.py) *)

RECURSIVE Traverse(_, _)
\* lines 32-34: current = current.get(part, {}) for each part
Traverse(current, parts) ==
    IF parts = <<>> THEN current
    ELSE Traverse(DictGet(current, Head(parts), EmptyDict), Tail(parts))

resolve_ref(ref, spec) ==
    IF ~(Len(ref.s) >= 2 /\ ref.s[1] = "#") THEN Raise("ValueError")
    ELSE Traverse(spec, Tail(ref.s))

RECURSIVE resolve_schema(_, _, _)
RECURSIVE ParserAllOfFold(_, _, _, _)

\* lines 56-63: merge one resolved allOf branch into resolved_schema
MergeBranch(resolved_schema, sub_resolved) ==
    LET props == IF HasKey(sub_resolved, "properties")
                 THEN DictSet(resolved_schema, "properties",
                              DictUpdate(DictGet(resolved_schema, "properties", EmptyDict),
                                         sub_resolved.d["properties"]))
                 ELSE resolved_schema
        others == Dict([k \in DOMAIN sub_resolved.d \ {"properties"} |-> sub_resolved.d[k]])
    IN DictUpdate(props, others)

ParserAllOfFold(subs, acc, spec, fuel) ==
    IF subs = <<>> THEN acc
    ELSE LET sub_resolved == resolve_schema(Head(subs), spec, fuel - 1) IN
         IF IsExc(sub_resolved) THEN sub_resolved
         ELSE ParserAllOfFold(Tail(subs), MergeBranch(acc, sub_resolved), spec, fuel)

resolve_schema(schema, spec, fuel) ==
    IF fuel = 0 THEN Raise("RecursionError")
    ELSE LET target == IF HasKey(schema, "$ref") THEN resolve_ref(schema.d["$ref"], spec)
                       ELSE schema
         IN IF IsExc(target) THEN target
            ELSE IF HasKey(target, "allOf")
                 THEN ParserAllOfFold(target.d["allOf"].l, EmptyDict, spec, fuel)
                 ELSE target

----------------------------------------------------------------------------
(* Inputs of the schema-resolution specification *)

TString == Dict("type" :> Str("string"))
TInteger == Dict("type" :> Str("integer"))
Props(f) == Dict("properties" :> Dict(f))
ObjectOf(f) == Dict("type" :> Str("object") @@ "properties" :> Dict(f))
ArrayOf(item) == Dict("type" :> Str("array") @@ "items" :> item)
AllOf(q) == Dict("allOf" :> List(q))

\* reference targets: the two components and a name no table holds
Targets == {"A", "B", "Missing"}

\* the shapes a component schema takes
ComponentShapes ==
    {TString, ObjectOf("x" :> TInteger),
     AllOf(<<Props("x" :> TString), Props("x" :> TInteger @@ "y" :> TString)>>),
     AllOf(<<Props("x" :> TString), Props("y" :> TInteger)>>),
     AllOf(<<RefNode("A"), RefNode("B")>>)}
    \cup {ObjectOf("x" :> RefNode(n)) : n \in Targets}
    \cup {ObjectOf("x" :> ObjectOf("q" :> RefNode(n))) : n \in Targets}
    \cup {ArrayOf(RefNode(n)) : n \in Targets}
    \cup {ArrayOf(ArrayOf(RefNode(n))) : n \in Targets}
    \cup {AllOf(<<RefNode(n), Props("y" :> TInteger)>>) : n \in Targets}
    \cup {AllOf(<<Props("x" :> RefNode(n))>>) : n \in Targets}
    \cup {RefNode(n) : n \in Targets}

\* the shapes of a schema at a request-body or response position
PositionShapes ==
    {RefNode("A"), RefNode("B"), RefNode("Missing"),
     Dict("$ref" :> Str("Pet.yaml")),
     Dict("$ref" :> [s |-> <<"#", "definitions", "A">>]),
     Dict("$ref" :> [s |-> <<"#", "components", "schemas", "x", "A">>]),
     TString, ArrayOf(RefNode("A")), ObjectOf("x" :> RefNode("A")),
     ArrayOf(TString), ObjectOf("x" :> TInteger), ObjectOf("x" :> ArrayOf(TString)),
     AllOf(<<RefNode("A"), RefNode("B")>>),
     AllOf(<<Props("x" :> TString), Props("y" :> TInteger)>>)}

\* self.spec of the OpenAPIParser reading the same document
ParserSpec(comps) == Dict("components" :> comps)

\* the shapes of the second component
SecondShapes ==
    {TString, ObjectOf("x" :> TInteger), ObjectOf("x" :> RefNode("A")),
     ObjectOf("x" :> RefNode("B")), ArrayOf(RefNode("A")),
     AllOf(<<RefNode("A"), Props("y" :> TInteger)>>),
     AllOf(<<Props("x" :> TString), Props("y" :> TInteger)>>), RefNode("Missing")}

\* one resolution per run
NotResolved == body_res = Unset /\ resp_res = Unset /\ parser_res = Unset /\ ref_res = Unset

\* parse_yaml lines 150-152
ResolveBody ==
    /\ NotResolved
    /\ body_res' = ResolveRequestBody(schema_in, components)
    /\ UNCHANGED <<components, schema_in, resp_res, parser_res, ref_res, again_res>>

\* parse_yaml line 170
ResolveResponse ==
    /\ NotResolved
    /\ resp_res' = resolve_response_schema(schema_in, components)
    /\ UNCHANGED <<components, schema_in, body_res, parser_res, ref_res, again_res>>

\* OpenAPIParser.resolve_schema(schema_in)
ParserResolve ==
    /\ NotResolved
    /\ parser_res' = resolve_schema(schema_in, ParserSpec(components), RecursionLimit)
    /\ UNCHANGED <<components, schema_in, body_res, resp_res, ref_res, again_res>>

\* OpenAPIParser.resolve_ref(schema_in['$ref'])
ParserResolveRef ==
    /\ NotResolved
    /\ HasKey(schema_in, "$ref")
    /\ ref_res' = resolve_ref(schema_in.d["$ref"], ParserSpec(components))
    /\ UNCHANGED <<components, schema_in, body_res, resp_res, parser_res, again_res>>

\* file_processor.py lines 60-78: the schema that resolve_response_schema
\* returned is resolved again
ResolveResponseAgain ==
    /\ again_res = Unset
    /\ resp_res # Unset /\ ~IsExc(resp_res)
    /\ again_res' = resolve_response_schema(resp_res, components)
    /\ UNCHANGED <<components, schema_in, body_res, resp_res, parser_res, ref_res>>

\* openapi_yaml_parser.py lines 38-67: the schema that resolve_schema returned
\* is resolved again
ParserResolveAgain ==
    /\ again_res = Unset
    /\ parser_res # Unset /\ ~IsExc(parser_res)
    /\ again_res' = resolve_schema(parser_res, ParserSpec(components), RecursionLimit)
    /\ UNCHANGED <<components, schema_in, body_res, resp_res, parser_res, ref_res>>

SchemaNext ==
    \/ ResolveBody /\ UNCHANGED <<extractVars, llmVars, invokeVars>>
    \/ ResolveResponse /\ UNCHANGED <<extractVars, llmVars, invokeVars>>
    \/ ParserResolve /\ UNCHANGED <<extractVars, llmVars, invokeVars>>
    \/ ParserResolveRef /\ UNCHANGED <<extractVars, llmVars, invokeVars>>
    \/ ResolveResponseAgain /\ UNCHANGED <<extractVars, llmVars, invokeVars>>
    \/ ParserResolveAgain /\ UNCHANGED <<extractVars, llmVars, invokeVars>>

SchemaInit ==
    /\ \E a \in ComponentShapes, b \in SecondShapes :
          components = Dict("schemas" :> Dict("A" :> a @@ "B" :> b))
    /\ schema_in \in PositionShapes
    /\ body_res = Unset /\ resp_res = Unset /\ parser_res = Unset /\ ref_res = Unset
    /\ again_res = Unset
    /\ doc = None /\ apis = Unset /\ py_pc = "idle"
    /\ uploaded_files = <<>> /\ apis_table = <<>> /\ collection = <<>> /\ uploads = 0
    /\ content = <<>> /\ json_candidates = <<>> /\ json_str = Unset /\ result = Unset
    /\ llm_out = Unset /\ llm_pc = "idle"
    /\ tool_registry = None /\ tool_name = Unset /\ params = Unset
    /\ req_body = Unset /\ invoked = <<>>
    /\ tools = Unset /\ tool_infos = Unset /\ tool_func = Unset
    /\ chat_calls = 0 /\ queries = 0
    /\ invoker = "none" /\ http_method = "GET" /\ full_path = <<>> /\ param_values = Unset
    /\ request_body_dict = Unset
    /\ url = Unset /\ http_requests = <<>> /\ http_outcome = Unset
    /\ api_result = Unset /\ inv_pc = "idle"

SpecSchema == SchemaInit /\ [][SchemaNext]_vars

----------------------------------------------------------------------------
(* Schema-resolution claims *)

RECURSIVE HasRef(_)
\* a '$ref' key is reachable somewhere inside v
HasRef(v) ==
    IF IsDict(v) THEN "$ref" \in DOMAIN v.d \/ \E k \in DOMAIN v.d : HasRef(v.d[k])
    ELSE IF IsList(v) THEN \E i \in 1..Len(v.l) : HasRef(v.l[i])
    ELSE FALSE

Returned(v) == v # Unset /\ ~IsExc(v)

\* C1: every schema returned by resolution (request body or response) holds
\* no '$ref' key at any depth.
C1_NoRefRemains ==
    /\ Returned(body_res) => ~HasRef(body_res)
    /\ Returned(resp_res) => ~HasRef(resp_res)

\* C2: resolution of a schema that references itself ends with a schema or
\* a cycle error: the recursion never runs until the interpreter stops it.
C2_CyclesTerminate ==
    \A r \in {body_res, resp_res, parser_res} : r # Raise("RecursionError")

RECURSIVE KeywiseMerge(_)
\* the right-biased key-wise union of the 'properties' maps of the branches
KeywiseMerge(branches) ==
    IF branches = <<>> THEN EmptyDict
    ELSE LET n == Len(branches)
             before == KeywiseMerge(SubSeq(branches, 1, n - 1))
         IN IF IsDict(branches[n]) /\ HasKey(branches[n], "properties")
            THEN DictUpdate(before, branches[n].d["properties"])
            ELSE before

SchemaTable == components.d["schemas"]
IsRefTo(node, name) == node = RefNode(name)
\* a branch of an allOf as FileProcessor resolves it
BranchOfProcessor(item) ==
    IF IsDict(item) /\ HasKey(item, "$ref")
    THEN resolve_schema_reference(item.d["$ref"], components, RecursionLimit)
    ELSE item
\* the schema OpenAPIParser composes: the target of schema_in, or schema_in
ParserTarget ==
    IF HasKey(schema_in, "$ref") THEN resolve_ref(schema_in.d["$ref"], ParserSpec(components))
    ELSE schema_in

\* C3: the properties of an allOf composition are the key-wise, right-biased
\* union of the properties of its branches.
C3_AllOfKeywiseMerge ==
    /\ \A n \in DOMAIN SchemaTable.d :
         (/\ IsRefTo(schema_in, n) /\ HasKey(SchemaTable.d[n], "allOf")
          /\ Returned(body_res) /\ IsDict(body_res))
         => LET items == SchemaTable.d[n].d["allOf"].l
                branches == [i \in 1..Len(items) |-> BranchOfProcessor(items[i])]
            IN DictGet(body_res, "properties", EmptyDict) = KeywiseMerge(branches)
    /\ (/\ Returned(parser_res) /\ ~IsExc(ParserTarget) /\ HasKey(ParserTarget, "allOf"))
       => LET items == ParserTarget.d["allOf"].l
              branches == [i \in 1..Len(items) |->
                             resolve_schema(items[i], ParserSpec(components), RecursionLimit)]
          IN DictGet(parser_res, "properties", EmptyDict) = KeywiseMerge(branches)

\* the reference names no component, or is not '#/components/schemas/<Name>'
Unresolvable(ref) ==
    \/ ~(Len(ref.s) = 4 /\ ref.s[1] = "#" /\ ref.s[2] = "components" /\ ref.s[3] = "schemas")
    \/ ref.s[4] \notin DOMAIN SchemaTable.d

\* C9: resolving a reference that names no component, or has another form,
\* raises nothing and returns the reference unchanged.
C9_UnresolvedRefReturned ==
    (HasKey(schema_in, "$ref") /\ Unresolvable(schema_in.d["$ref"]))
    => \A r \in {body_res, resp_res, ref_res} : r # Unset => r = schema_in.d["$ref"]

----------------------------------------------------------------------------
(* FileProcessor.parse_yaml *)

\* A mapping whose iteration order matters (paths, a path item) keeps its
\* entries in insertion order: [od |-> <<<<key, value>>, ...>>], keys unique.
OD(q) == [od |-> q]
IsOD(v) == "od" \in DOMAIN v
ODHas(v, k) == \E i \in 1..Len(v.od) : v.od[i][1] = k
ODGet(v, k, default) ==
    IF ODHas(v, k) THEN v.od[CHOOSE i \in 1..Len(v.od) : v.od[i][1] = k][2] ELSE default

\* str.upper() on the keys a path item holds
Upper(key) ==
    CASE key = "get" -> "GET" [] key = "Get" -> "GET" [] key = "post" -> "POST"
      [] key = "put" -> "PUT" [] key = "delete" -> "DELETE" [] key = "patch" -> "PATCH"
      [] key = "head" -> "HEAD" [] key = "options" -> "OPTIONS"
      [] key = "x-internal" -> "X-INTERNAL" [] key = "parameters" -> "PARAMETERS"
      [] key = "summary" -> "SUMMARY" [] OTHER -> key

\* yaml.dump(value): the value rendered as a YAML string
yaml_dump(v) == IF IsExc(v) THEN v ELSE [yaml |-> v]

RECURSIVE RStrip(_)
\* str.rstrip('/') on a '/'-split string
RStrip(segs) ==
    IF Len(segs) > 1 /\ segs[Len(segs)] = "" THEN RStrip(SubSeq(segs, 1, Len(segs) - 1))
    ELSE segs
RECURSIVE LStrip(_)
\* str.lstrip('/') on a '/'-split string
LStrip(segs) == IF Len(segs) > 1 /\ segs[1] = "" THEN LStrip(Tail(segs)) ELSE segs

\* a normalisation that asks for the fields without giving defaults
normalize_param_no_defaults(param) ==
    Dict("name" :> DictGet(param, "name", None)
      @@ "in" :> DictGet(param, "in", None)
      @@ "description" :> DictGet(param, "description", None)
      @@ "required" :> DictGet(param, "required", None)
      @@ "schema" :> DictGet(param, "schema", None))

\* lines 122-129
normalize_param(param) ==
    Dict("name" :> DictGet(param, "name", Str(""))
      @@ "in" :> DictGet(param, "in", Str(""))
      @@ "description" :> DictGet(param, "description", Str(""))
      @@ "required" :> DictGet(param, "required", Bool(FALSE))
      @@ "schema" :> DictGet(param, "schema", EmptyDict))

\* lines 119-120 and 130-131: a non-list is the empty list; param.get on an
\* element that is no mapping raises AttributeError
NormalizeParameters(raw) ==
    LET lst == IF IsList(raw) THEN raw.l ELSE <<>> IN
    IF \E i \in 1..Len(lst) : ~IsDict(lst[i]) THEN Raise("AttributeError")
    ELSE List([i \in 1..Len(lst) |-> normalize_param(lst[i])])

SameIdentity(p, q) == p.d["name"] = q.d["name"] /\ p.d["in"] = q.d["in"]

RECURSIVE CombineParameters(_, _)
\* lines 134-143
CombineParameters(all_parameters, operation_parameters) ==
    IF operation_parameters = <<>> THEN all_parameters
    ELSE LET op_param == Head(operation_parameters)
             hits == {i \in 1..Len(all_parameters) : SameIdentity(all_parameters[i], op_param)}
             first == CHOOSE i \in hits : \A j \in hits : i <= j
         IN IF hits # {} /\ Truthy(all_parameters[first])
            THEN CombineParameters(
                    [all_parameters EXCEPT ![first] = DictUpdate(@, op_param)],
                    Tail(operation_parameters))
            ELSE CombineParameters(Append(all_parameters, op_param), Tail(operation_parameters))

\* lines 146-160
ExtractRequestBody(method_data, comps) ==
    IF ~HasKey(method_data, "requestBody") THEN EmptyDict
    ELSE LET body_content == DictGet(method_data.d["requestBody"], "content", EmptyDict) IN
         IF HasKey(body_content, "application/json")
         THEN yaml_dump(ResolveRequestBody(
                 DictGet(body_content.d["application/json"], "schema", EmptyDict), comps))
         ELSE IF HasKey(body_content, "application/yaml")
         THEN yaml_dump(ResolveRequestBody(
                 DictGet(body_content.d["application/yaml"], "schema", EmptyDict), comps))
         ELSE EmptyDict

\* lines 163-176
ExtractResponses(method_data, comps) ==
    LET responses == DictGet(method_data, "responses", EmptyDict)
        kept == {c \in DOMAIN responses.d : IsDict(responses.d[c])}
        out == [c \in kept |->
                  LET response_data == responses.d[c]
                      resp_content == DictGet(response_data, "content", EmptyDict)
                      schema == IF HasKey(resp_content, "application/json")
                                THEN yaml_dump(resolve_response_schema(
                                        DictGet(resp_content.d["application/json"], "schema", EmptyDict),
                                        comps))
                                ELSE EmptyDict
                  IN IF IsExc(schema) THEN schema
                     ELSE Dict("description" :> DictGet(response_data, "description", Str(""))
                            @@ "schema" :> schema)]
        inner == {out[c] : c \in kept}
    IN IF FirstExc(inner) # Unset THEN FirstExc(inner) ELSE Dict(out)

\* lines 98-99
BaseUrl(data) ==
    LET servers == DictGet(data, "servers", EmptyList) IN
    IF Truthy(servers) THEN DictGet(servers.l[1], "url", Str("")) ELSE Str("")

\* line 179
FullPath(base_url, path) ==
    IF Truthy(base_url) THEN [s |-> RStrip(base_url.s) \o LStrip(path)] ELSE [s |-> path]

\* lines 111-200: the body of the loop for one (method, method_data) whose
\* method_data is a mapping
BuildApi(path, path_item, method, method_data, base_url, comps) ==
    LET operation_parameters == NormalizeParameters(DictGet(method_data, "parameters", EmptyList))
        path_parameters == NormalizeParameters(ODGet(path_item, "parameters", EmptyList))
        request_body == ExtractRequestBody(method_data, comps)
        response_schemas == ExtractResponses(method_data, comps)
    IN IF IsExc(operation_parameters) THEN operation_parameters
       ELSE IF IsExc(path_parameters) THEN path_parameters
       ELSE IF IsExc(request_body) THEN request_body
       ELSE IF IsExc(response_schemas) THEN response_schemas
       ELSE Dict("name" :> [s |-> path]
              @@ "method" :> Str(Upper(method))
              @@ "operation_id" :> DictGet(method_data, "operationId", None)
              @@ "summary" :> DictGet(method_data, "summary", Str(""))
              @@ "description" :> DictGet(method_data, "description", Str(""))
              @@ "parameters" :> List(CombineParameters(path_parameters.l, operation_parameters.l))
              @@ "request_body" :> request_body
              @@ "response_schemas" :> response_schemas
              @@ "base_url" :> base_url
              @@ "full_path" :> FullPath(base_url, path))

RECURSIVE MethodsLoop(_, _, _, _, _, _)
\* lines 107-200: for method, method_data in path_item.items(); acc is apis
MethodsLoop(path, path_item, entries, acc, base_url, comps) ==
    IF entries = <<>> THEN List(acc)
    ELSE LET method == Head(entries)[1]
             method_data == Head(entries)[2]
         IN IF ~IsDict(method_data)
            THEN MethodsLoop(path, path_item, Tail(entries), acc, base_url, comps)
            ELSE LET api_dict == BuildApi(path, path_item, method, method_data, base_url, comps) IN
                 IF IsExc(api_dict) THEN api_dict
                 ELSE MethodsLoop(path, path_item, Tail(entries), Append(acc, api_dict),
                                  base_url, comps)

RECURSIVE PathsLoop(_, _, _, _)
\* lines 106-200: for path, path_item in paths.items(); path_item.items() on
\* a path item that is no mapping raises AttributeError
PathsLoop(entries, acc, base_url, comps) ==
    IF entries = <<>> THEN List(acc)
    ELSE LET path == Head(entries)[1]
             path_item == Head(entries)[2]
         IN IF ~IsOD(path_item) THEN Raise("AttributeError")
            ELSE LET got == MethodsLoop(path, path_item, path_item.od, acc, base_url, comps) IN
                 IF IsExc(got) THEN got ELSE PathsLoop(Tail(entries), got.l, base_url, comps)

\* lines 80-202 (the document-level openapi/info fields copied into every
\* api_dict are left out: they are the same for every operation)
parse_yaml(data) ==
    IF ~IsDict(data) THEN Raise("ValueError")
    ELSE PathsLoop(DictGet(data, "paths", OD(<<>>)).od, <<>>, BaseUrl(data),
                   DictGet(data, "components", EmptyDict))

----------------------------------------------------------------------------
(* Inputs of the ingestion specification *)

Param(name, loc) == "name" :> Str(name) @@ "in" :> Str(loc)
PFalse == Dict(Param("id", "path") @@ "required" :> Bool(FALSE))
PFull == Dict(Param("id", "path") @@ "description" :> Str("path-level id")
              @@ "required" :> Bool(TRUE) @@ "schema" :> TInteger)
OTrue == Dict(Param("id", "path") @@ "required" :> Bool(TRUE))
OBare == Dict(Param("id", "path"))
OLimit == Dict(Param("limit", "query") @@ "schema" :> TInteger)
OLimitReq == Dict(Param("limit", "query") @@ "required" :> Bool(TRUE))
ONameless == Dict("description" :> Str("no name") @@ "example" :> Str("7"))

\* what a path item holds under 'parameters' (Unset: the key is absent)
PathParameterLists ==
    {Unset, List(<<PFalse>>), List(<<PFull>>), List(<<PFalse, PFull>>),
     List(<<Str("oops")>>), Str("none")}

\* what an operation holds under 'parameters' (Unset: the key is absent)
OperationParameterLists ==
    {Unset, List(<<OTrue>>), List(<<OBare>>), List(<<OLimit>>), List(<<OBare, OLimit>>),
     List(<<OLimit, OLimitReq>>), List(<<None>>), Dict("name" :> Str("id")),
     List(<<ONameless>>)}

JsonContent(schema) == Dict("content" :> Dict("application/json" :> Dict("schema" :> schema)))

\* the rest of an operation: nothing, a request body, or responses
OperationRests ==
    {<<>>,
     "requestBody" :> JsonContent(RefNode("Account")),
     "responses" :> Dict("200" :> DictUpdate(JsonContent(ArrayOf(RefNode("Account"))),
                                             Dict("description" :> Str("ok")))
                         @@ "default" :> Str("error"))}

Operations ==
    {Dict(rest) : rest \in OperationRests}
    \cup {Dict("parameters" :> pl @@ rest) :
            pl \in OperationParameterLists \ {Unset}, rest \in OperationRests}

\* a further key of the path item, after the 'get' operation
ExtraEntries ==
    {<<>>, <<<<"head", EmptyDict>>>>, <<<<"Get", Dict("operationId" :> Str("again"))>>>>,
     <<<<"summary", Str("accounts")>>>>, <<<<"x-internal", Dict("owner" :> Str("ops"))>>>>,
     <<<<"post", Str("oops")>>>>}

PathItems ==
    {None, EmptyList}
    \cup {OD((IF pl = Unset THEN <<>> ELSE <<<<"parameters", pl>>>>) \o <<<<"get", op>>>> \o extra) :
            pl \in PathParameterLists, op \in Operations, extra \in ExtraEntries}

AccountPath == <<"", "accounts", "{id}">>
AccountsPath == <<"", "accounts">>

\* the second path entry of the document, when there is one
SecondEntries ==
    {<<>>, <<<<AccountsPath, None>>>>,
     <<<<AccountsPath, OD(<<<<"post", Dict("operationId" :> Str("createAccount")
                                          @@ "requestBody" :> JsonContent(RefNode("Account")))>>>>)>>>>}

DocComponents ==
    Dict("schemas" :> Dict("Account" :> ObjectOf("name" :> TString)))

Docs ==
    {None, EmptyList}
    \cup {Dict(servers @@ "components" :> DocComponents
               @@ "paths" :> OD(<<<<AccountPath, item>>>> \o second)) :
            servers \in {<<>>, "servers" :> List(<<Dict("url" :> [s |-> <<"http:", "", "api", "">>])>>)},
            item \in PathItems, second \in SecondEntries}

\* bound: how often the same document is processed
MaxUploads == 2

\* embeddings.py line 120: f"{api_data['name']}_{api_data['method']}", the
\* parts of the concatenation
EmbeddingId(api) == [parts |-> <<api.d["name"].s, "_", api.d["method"].s[1]>>]
\* embeddings.py lines 97-113: the metadata stored with the embedding
EmbeddingMetadata(api) ==
    [name |-> api.d["name"], method |-> api.d["method"], full_path |-> api.d["full_path"]]
HasId(coll, id) == \E n \in 1..Len(coll) : coll[n].id = id

\* database.py lines 81-105: INSERT INTO apis, the id taken from the sequence
ApiRow(table, file_id, api) ==
    [id |-> Len(table) + 1, file_id |-> file_id,
     api_name |-> api.d["name"], method |-> api.d["method"],
     full_path |-> api.d["full_path"]]

RECURSIVE SaveLoop(_, _, _, _, _)
\* main.py lines 39-41: for api in apis: save_api_data, then create_embedding;
\* collection.add of an id the collection holds keeps the entry it has
\* (on_duplicate = "ignored") or raises (on_duplicate = "raised")
SaveLoop(todo, file_id, table, coll, on_duplicate) ==
    IF todo = <<>> THEN [table |-> table, coll |-> coll, raised |-> FALSE]
    ELSE LET api == Head(todo)
             saved == Append(table, ApiRow(table, file_id, api))
         IN IF HasId(coll, EmbeddingId(api))
            THEN IF on_duplicate = "raised"
                 THEN [table |-> saved, coll |-> coll, raised |-> TRUE]
                 ELSE SaveLoop(Tail(todo), file_id, saved, coll, on_duplicate)
            ELSE SaveLoop(Tail(todo), file_id, saved,
                          Append(coll, [id |-> EmbeddingId(api),
                                        metadata |-> EmbeddingMetadata(api)]),
                          on_duplicate)

\* main.py line 36: process_uploaded_file -> parse_yaml(file_path)
Ingest ==
    /\ py_pc = "start"
    /\ apis' = parse_yaml(doc)
    /\ py_pc' = IF IsExc(apis') THEN "raised" ELSE "done"
    /\ UNCHANGED <<doc, uploaded_files, apis_table, collection, uploads>>

\* main.py lines 37-43: the file record, then a row and an embedding per api
SaveApis ==
    /\ py_pc = "done"
    /\ uploaded_files' = Append(uploaded_files,
                                [id |-> Len(uploaded_files) + 1,
                                 filename |-> <<uploads + 1, "openapi.yaml">>])
    /\ \E on_duplicate \in {"ignored", "raised"} :
          LET saved == SaveLoop(apis.l, Len(uploaded_files) + 1, apis_table, collection,
                                on_duplicate)
          IN /\ apis_table' = saved.table
             /\ collection' = saved.coll
             /\ py_pc' = IF saved.raised THEN "save_raised" ELSE "saved"
    /\ uploads' = uploads + 1
    /\ UNCHANGED <<doc, apis>>

\* main.py lines 33-36: the same file is uploaded and processed again
Reingest ==
    /\ py_pc \in {"saved", "save_raised"}
    /\ uploads < MaxUploads
    /\ py_pc' = "start" /\ apis' = Unset
    /\ UNCHANGED <<doc, uploaded_files, apis_table, collection, uploads>>

ExtractNext ==
    \/ Ingest /\ UNCHANGED <<schemaVars, llmVars, invokeVars>>
    \/ SaveApis /\ UNCHANGED <<schemaVars, llmVars, invokeVars>>
    \/ Reingest /\ UNCHANGED <<schemaVars, llmVars, invokeVars>>

ExtractInit ==
    /\ doc \in Docs /\ apis = Unset /\ py_pc = "start"
    /\ uploaded_files = <<>> /\ apis_table = <<>> /\ collection = <<>> /\ uploads = 0
    /\ components = EmptyDict /\ schema_in = EmptyDict
    /\ body_res = Unset /\ resp_res = Unset /\ parser_res = Unset /\ ref_res = Unset
    /\ again_res = Unset
    /\ content = <<>> /\ json_candidates = <<>> /\ json_str = Unset /\ result = Unset
    /\ llm_out = Unset /\ llm_pc = "idle"
    /\ tool_registry = None /\ tool_name = Unset /\ params = Unset
    /\ req_body = Unset /\ invoked = <<>>
    /\ tools = Unset /\ tool_infos = Unset /\ tool_func = Unset
    /\ chat_calls = 0 /\ queries = 0
    /\ invoker = "none" /\ http_method = "GET" /\ full_path = <<>> /\ param_values = Unset
    /\ request_body_dict = Unset
    /\ url = Unset /\ http_requests = <<>> /\ http_outcome = Unset
    /\ api_result = Unset /\ inv_pc = "idle"

SpecExtract == ExtractInit /\ [][ExtractNext]_vars

----------------------------------------------------------------------------
(* Ingestion claims *)

RECURSIVE OperationsOf(_)
\* the (path, path item, key, value) of every mapping-valued key of every
\* path item, in document order
OperationsOf(entries) ==
    IF entries = <<>> THEN <<>>
    ELSE LET item == Head(entries)[2]
             here == IF IsOD(item)
                     THEN [i \in 1..Len(item.od) |->
                             [path |-> Head(entries)[1], item |-> item,
                              method |-> item.od[i][1], data |-> item.od[i][2]]]
                     ELSE <<>>
         IN SelectSeq(here, LAMBDA e : IsDict(e.data)) \o OperationsOf(Tail(entries))

DocOperations == IF IsDict(doc) THEN OperationsOf(DictGet(doc, "paths", OD(<<>>)).od) ELSE <<>>
Emitted == py_pc = "done"
RawList(v) == IF IsList(v) THEN v.l ELSE <<>>
RawPathParams(k) == RawList(ODGet(DocOperations[k].item, "parameters", EmptyList))
RawOpParams(k) == RawList(DictGet(DocOperations[k].data, "parameters", EmptyList))
ParamsOf(k) == apis.l[k].d["parameters"].l
IdentityOf(raw) == <<DictGet(raw, "name", Str("")), DictGet(raw, "in", Str(""))>>
EntryIdentity(e) == <<e.d["name"], e.d["in"]>>
EntriesWith(k, id) == {i \in 1..Len(ParamsOf(k)) : EntryIdentity(ParamsOf(k)[i]) = id}
MergeFields == {"description", "required", "schema"}

\* C4: in a merged entry, a field the operation-level parameter does not
\* declare keeps the path-level value.
C4_OmittedFieldsKeepPathLevel ==
    Emitted =>
      \A k \in 1..Len(apis.l) :
        \A p \in 1..Len(RawPathParams(k)), o \in 1..Len(RawOpParams(k)) :
          LET rawp == RawPathParams(k)[p]
              rawo == RawOpParams(k)[o]
          IN (/\ IdentityOf(rawp) = IdentityOf(rawo)
              /\ \A q \in 1..(p - 1) : IdentityOf(RawPathParams(k)[q]) # IdentityOf(rawp))
             => \A f \in MergeFields \ DOMAIN rawo.d :
                  ParamsOf(k)[p].d[f] = normalize_param(rawp).d[f]

\* C5: a path-level and an operation-level parameter of one identity merge
\* into exactly one entry, which carries the operation-level values; an
\* operation-level parameter without path-level counterpart is appended.
C5_SingleMergedEntry ==
    Emitted =>
      \A k \in 1..Len(apis.l) :
        \A o \in 1..Len(RawOpParams(k)) :
          LET rawo == RawOpParams(k)[o]
              id == IdentityOf(rawo)
              last == \A q \in (o + 1)..Len(RawOpParams(k)) : IdentityOf(RawOpParams(k)[q]) # id
              inPath == \E p \in 1..Len(RawPathParams(k)) : IdentityOf(RawPathParams(k)[p]) = id
          IN /\ Cardinality(EntriesWith(k, id)) = 1
             /\ last => \A i \in EntriesWith(k, id) : ParamsOf(k)[i] = normalize_param(rawo)
             /\ ~inPath => \A i \in EntriesWith(k, id) : i > Len(RawPathParams(k))

\* C6: no two entries of an operation's parameter list share (name, in).
C6_UniqueIdentity ==
    Emitted =>
      \A k \in 1..Len(apis.l) :
        \A i, j \in 1..Len(ParamsOf(k)) :
          EntryIdentity(ParamsOf(k)[i]) = EntryIdentity(ParamsOf(k)[j]) => i = j

FiveVerbs == {"GET", "POST", "PUT", "DELETE", "PATCH"}

\* C7: every emitted operation has one of the five verbs as its method.
C7_OnlyFiveVerbs ==
    Emitted => \A k \in 1..Len(apis.l) : apis.l[k].d["method"].s[1] \in FiveVerbs

\* C8: ingestion raises only for a document that is no mapping; with a
\* mapping at the top level every well-formed operation is emitted.
C8_MalformedPartsSkipped ==
    py_pc # "start" =>
      /\ IsExc(apis) => ~IsDict(doc)
      /\ ~IsExc(apis) =>
           \A e \in 1..Len(DocOperations) :
             (/\ Upper(DocOperations[e].method) \in FiveVerbs
              /\ \A i \in 1..Len(RawList(DictGet(DocOperations[e].data, "parameters", EmptyList))) :
                    IsDict(DictGet(DocOperations[e].data, "parameters", EmptyList).l[i]))
             => \E k \in 1..Len(apis.l) :
                  /\ apis.l[k].d["name"] = [s |-> DocOperations[e].path]
                  /\ apis.l[k].d["method"] = Str(Upper(DocOperations[e].method))


----------------------------------------------------------------------------
(* LLMHandler.get_response: the Parse step *)

\* The completion text is a sequence over this alphabet: the two braces,
\* "k" for a quoted key with its colon, "v" for a quoted string value and
\* "x" for any other character (prose, a markdown fence).
Alphabet == {"{", "}", "k", "v", "x"}
Texts == UNION {[1..n -> Alphabet] : n \in 0..MaxLen}

\* an inner scan that ends the candidate at the first '}' it meets
ScanCloseAtFirst(text, i, brace_count) ==
    LET closing == {m \in i..Len(text) : text[m] = "}"} IN
    IF closing = {} THEN <<Len(text) + 1, brace_count>>
    ELSE <<(CHOOSE m \in closing : \A n \in closing : m <= n) + 1, 0>>

RECURSIVE ScanClose(_, _, _)
\* lines 179-184: the inner while; <<i, brace_count>> when it ends
ScanClose(text, i, brace_count) ==
    IF i <= Len(text) /\ brace_count > 0
    THEN ScanClose(text, i + 1,
                   IF text[i] = "{" THEN brace_count + 1
                   ELSE IF text[i] = "}" THEN brace_count - 1
                   ELSE brace_count)
    ELSE <<i, brace_count>>

RECURSIVE ScanNoBreak(_, _, _)
\* the scan without the break of line 188: after a '{' that is never closed
\* it goes on with the next character
ScanNoBreak(text, i, results) ==
    IF i > Len(text) THEN results
    ELSE IF text[i] = "{"
    THEN LET closed == ScanClose(text, i + 1, 1) IN
         IF closed[2] = 0
         THEN ScanNoBreak(text, closed[1], Append(results, SubSeq(text, i, closed[1] - 1)))
         ELSE ScanNoBreak(text, i + 1, results)
    ELSE ScanNoBreak(text, i + 1, results)

extract_all_json_no_break(text) == ScanNoBreak(text, 1, <<>>)

RECURSIVE ScanFrom(_, _, _)
\* lines 174-190: the outer while, i counting from 1
ScanFrom(text, i, results) ==
    IF i > Len(text) THEN results
    ELSE IF text[i] = "{"
    THEN LET closed == ScanClose(text, i + 1, 1) IN
         IF closed[2] = 0
         THEN ScanFrom(text, closed[1], Append(results, SubSeq(text, i, closed[1] - 1)))
         ELSE results
    ELSE ScanFrom(text, i + 1, results)

\* lines 171-191
extract_all_json(text) == ScanFrom(text, 1, <<>>)

\* A structured completion is written with more tokens: "," between the
\* members of an object, a token per quoted key (with its colon) and a token
\* per JSON literal; 'abc' stands for the JSON string "abc".
Keys == {"k", "tool_name", "parameters", "request_body",
         "limit", "ratio", "active", "tag", "q", "extra"}
Literal ==
    ("v" :> Str("v")) @@ ("null" :> None)
    @@ ("true" :> Bool(TRUE)) @@ ("false" :> Bool(FALSE))
    @@ ("42" :> PyInt(42)) @@ ("1" :> PyInt(1)) @@ ("0" :> PyInt(0)) @@ ("2" :> PyInt(2))
    @@ ("4.5" :> PyFloat(45)) @@ ("1.0" :> PyFloat(10))
    @@ ("'42'" :> Str("42")) @@ ("'abc'" :> Str("abc")) @@ ("'4.5'" :> Str("4.5"))
    @@ ("'YES'" :> Str("YES")) @@ ("'True'" :> Str("True")) @@ ("'1'" :> Str("1"))
    @@ ("'no'" :> Str("no")) @@ ("'FALSE'" :> Str("FALSE")) @@ ("'0'" :> Str("0"))
    @@ ("'maybe'" :> Str("maybe"))
    @@ ("'GET__accounts'" :> Str("GET__accounts"))
    @@ ("'POST__accounts'" :> Str("POST__accounts"))
    @@ ("'PUT__accounts'" :> Str("PUT__accounts"))
    @@ ("'DELETE__accounts'" :> Str("DELETE__accounts"))
    @@ ("['GET__accounts']" :> List(<<Str("GET__accounts")>>))
    @@ ("[1]" :> List(<<PyInt(1)>>))

ParseFail == [ok |-> FALSE, val |-> None, next |-> 0]
RECURSIVE ParseObject(_, _)
RECURSIVE ParseMembers(_, _, _)
\* the members of an object from the key at i on: key value { ',' key value }
\* up to the closing brace; a repeated key keeps its last value
ParseMembers(text, i, acc) ==
    IF i + 1 > Len(text) \/ text[i] \notin Keys THEN ParseFail
    ELSE LET member == IF text[i + 1] \in DOMAIN Literal
                       THEN [ok |-> TRUE, val |-> Literal[text[i + 1]], next |-> i + 2]
                       ELSE ParseObject(text, i + 1)
         IN IF ~member.ok \/ member.next > Len(text) THEN ParseFail
            ELSE IF text[member.next] = "}"
            THEN [ok |-> TRUE, val |-> DictSet(acc, text[i], member.val),
                  next |-> member.next + 1]
            ELSE IF text[member.next] = ","
            THEN ParseMembers(text, member.next + 1, DictSet(acc, text[i], member.val))
            ELSE ParseFail

\* the JSON grammar on the tokens: object = '{' [ members ] '}',
\* value = literal | object; gives the value and the index after it
ParseObject(text, i) ==
    IF i + 1 > Len(text) \/ text[i] # "{" THEN ParseFail
    ELSE IF text[i + 1] = "}" THEN [ok |-> TRUE, val |-> EmptyDict, next |-> i + 2]
    ELSE ParseMembers(text, i + 1, EmptyDict)

\* json.loads(candidate): the whole candidate must be one object
json_loads(candidate) ==
    LET parsed == ParseObject(candidate, 1) IN
    IF parsed.ok /\ parsed.next = Len(candidate) + 1 THEN parsed.val
    ELSE Raise("JSONDecodeError")

\* lines 197-203: the index of the first candidate json.loads accepts, or 0
FirstParsing(candidates) ==
    LET good == {c \in 1..Len(candidates) : ~IsExc(json_loads(candidates[c]))} IN
    IF good = {} THEN 0 ELSE CHOOSE c \in good : \A e \in good : c <= e

\* a character string held in a variable
Chars(text) == [chars |-> text]

----------------------------------------------------------------------------
(* LLMHandler.get_response: tool lookup, coercion and invocation *)

\* how the strings of the completions are spelled, character by character
Spelling ==
    ("42" :> <<"4", "2">>) @@ ("abc" :> <<"a", "b", "c">>) @@ ("4.5" :> <<"4", ".", "5">>)
    @@ ("YES" :> <<"Y", "E", "S">>) @@ ("True" :> <<"T", "r", "u", "e">>)
    @@ ("no" :> <<"n", "o">>) @@ ("FALSE" :> <<"F", "A", "L", "S", "E">>)
    @@ ("maybe" :> <<"m", "a", "y", "b", "e">>) @@ ("1" :> <<"1">>) @@ ("0" :> <<"0">>)
    @@ ("v" :> <<"v">>)
Digits == <<"0", "1", "2", "3", "4", "5", "6", "7", "8", "9">>
IsDigit(c) == \E n \in 1..Len(Digits) : Digits[n] = c
DigitValue(c) == (CHOOSE n \in 1..Len(Digits) : Digits[n] = c) - 1
AllDigits(cs) == cs # <<>> /\ \A n \in 1..Len(cs) : IsDigit(cs[n])

RECURSIVE DecimalValue(_)
DecimalValue(cs) ==
    IF cs = <<>> THEN 0
    ELSE 10 * DecimalValue(SubSeq(cs, 1, Len(cs) - 1)) + DigitValue(cs[Len(cs)])

RECURSIVE DecimalDigits(_)
\* the decimal numeral of a natural number
DecimalDigits(n) ==
    IF n < 10 THEN <<Digits[n + 1]>>
    ELSE Append(DecimalDigits(n \div 10), Digits[(n % 10) + 1])

\* int(v): a string must be a decimal numeral, a float is truncated,
\* None and containers raise TypeError
int(v) ==
    IF IsStr(v)
    THEN IF AllDigits(Spelling[v.s[1]]) THEN PyInt(DecimalValue(Spelling[v.s[1]]))
         ELSE Raise("ValueError")
    ELSE IF IsFloat(v) THEN PyInt(v.f \div 10)
    ELSE IF IsBool(v) THEN PyInt(IF v.b THEN 1 ELSE 0)
    ELSE IF "i" \in DOMAIN v THEN v
    ELSE Raise("TypeError")

\* float(v): a string must be digits, or digits '.' digit (the completions
\* carry at most one decimal place); an int or a bool is converted
float(v) ==
    IF IsStr(v)
    THEN LET cs == Spelling[v.s[1]] IN
         IF AllDigits(cs) THEN PyFloat(10 * DecimalValue(cs))
         ELSE IF Len(cs) >= 3 /\ cs[Len(cs) - 1] = "." /\ IsDigit(cs[Len(cs)])
                 /\ AllDigits(SubSeq(cs, 1, Len(cs) - 2))
         THEN PyFloat(10 * DecimalValue(SubSeq(cs, 1, Len(cs) - 2)) + DigitValue(cs[Len(cs)]))
         ELSE Raise("ValueError")
    ELSE IF IsFloat(v) THEN v
    ELSE IF IsBool(v) THEN PyFloat(IF v.b THEN 10 ELSE 0)
    ELSE IF "i" \in DOMAIN v THEN PyFloat(10 * v.i)
    ELSE Raise("TypeError")

\* str(v), character by character; a container is rendered by its brackets
str(v) ==
    IF IsStr(v) THEN Spelling[v.s[1]]
    ELSE IF IsBool(v) THEN (IF v.b THEN Spelling["True"] ELSE <<"F", "a", "l", "s", "e">>)
    ELSE IF "i" \in DOMAIN v THEN DecimalDigits(v.i)
    ELSE IF IsFloat(v) THEN DecimalDigits(v.f \div 10) \o <<".", Digits[(v.f % 10) + 1]>>
    ELSE IF IsList(v) THEN <<"[", "]">>
    ELSE IF IsDict(v) THEN <<"{", "}">>
    ELSE <<"N", "o", "n", "e">>

UpperCase == <<"A", "E", "F", "L", "R", "S", "T", "U", "Y", "N", "O">>
LowerCase == <<"a", "e", "f", "l", "r", "s", "t", "u", "y", "n", "o">>
\* a comparison that keeps the case of the value
lower_keeps_case(cs) == cs

\* str.lower()
lower(cs) ==
    [n \in 1..Len(cs) |->
        IF \E u \in 1..Len(UpperCase) : UpperCase[u] = cs[n]
        THEN LowerCase[CHOOSE u \in 1..Len(UpperCase) : UpperCase[u] = cs[n]]
        ELSE cs[n]]

TrueWords == {<<"t", "r", "u", "e">>, <<"1">>, <<"y", "e", "s">>}
FalseWords == {<<"f", "a", "l", "s", "e">>, <<"0">>, <<"n", "o">>}

\* lines 224-244: one parameter value against the declared type
CoerceValue(expected_type, v) ==
    IF expected_type = Str("integer") /\ ~IsInt(v)
    THEN (IF IsExc(int(v)) THEN v ELSE int(v))
    ELSE IF expected_type = Str("number") /\ ~IsFloat(v)
    THEN (IF IsExc(float(v)) THEN v ELSE float(v))
    ELSE IF expected_type = Str("boolean") /\ ~IsBool(v)
    THEN (IF lower(str(v)) \in TrueWords THEN Bool(TRUE)
          ELSE IF lower(str(v)) \in FalseWords THEN Bool(FALSE)
          ELSE v)
    ELSE v

\* lines 220, 222: param_schemas.get(k, {}); a later declaration of the same
\* name replaces an earlier one
ParamSchema(api_meta, k) ==
    LET declared == DictGet(api_meta, "parameters", EmptyList).l
        named == {n \in 1..Len(declared) : declared[n].d["name"] = Str(k)}
    IN IF named = {} THEN EmptyDict
       ELSE DictGet(declared[CHOOSE n \in named : \A m \in named : m <= n],
                    "schema", EmptyDict)

\* lines 219-244: params.items() needs a mapping
CoerceParams(api_meta, raw) ==
    IF ~IsDict(raw) THEN Raise("AttributeError")
    ELSE [d |-> [k \in DOMAIN raw.d |->
                    CoerceValue(DictGet(ParamSchema(api_meta, k), "type", None), raw.d[k])]]

\* lines 246-248: kwargs = params.copy(), plus the request body when truthy
BuildKwargs(raw, body) ==
    IF IsDict(raw) THEN (IF Truthy(body) THEN DictSet(raw, "request_body", body) ELSE raw)
    ELSE IF IsList(raw) THEN Raise("TypeError")
    ELSE Raise("AttributeError")

\* a tool function with its '__api_metadata__' attribute (field api_metadata)
\* and its 'api_metadata' attribute (field fallback); None: no such attribute
Tool(name, api_meta) == [tool |-> name, api_metadata |-> api_meta, fallback |-> None]
\* a tool function that carries its metadata in 'api_metadata' only
FallbackTool(name, api_meta) == [tool |-> name, api_metadata |-> None, fallback |-> api_meta]
Declared(name, schema) == Dict("name" :> Str(name) @@ "schema" :> schema)
AccountsMeta ==
    Dict("method" :> Str("GET") @@ "full_path" :> Str("accounts")
         @@ "parameters" :> List(<<Declared("limit", Dict("type" :> Str("integer"))),
                                    Declared("ratio", Dict("type" :> Str("number"))),
                                    Declared("active", Dict("type" :> Str("boolean"))),
                                    Declared("tag", EmptyDict),
                                    Declared("q", Dict("type" :> Str("string")))>>))
PutMeta ==
    Dict("method" :> Str("PUT") @@ "full_path" :> Str("accounts")
         @@ "parameters" :> List(<<Declared("limit", Dict("type" :> Str("integer"))),
                                    Declared("active", Dict("type" :> Str("boolean")))>>))
ToolRegistry ==
    Dict("GET__accounts" :> Tool("GET__accounts", AccountsMeta)
         @@ "POST__accounts" :> Tool("POST__accounts", None)
         @@ "PUT__accounts" :> FallbackTool("PUT__accounts", PutMeta))
\* a registry that replaces the tool behind GET__accounts, drops the other
\* tools and brings DELETE__accounts
ReplacementRegistry ==
    Dict("GET__accounts" :> Tool("GET__accounts.v2", None)
         @@ "DELETE__accounts" :> Tool("DELETE__accounts", None))
\* what a caller passes as 'tools'
ToolsArguments == {None, EmptyDict, ToolRegistry, ReplacementRegistry}

\* lines 15-16: self._tool_registry = tool_registry
set_tools(registry) == registry

\* a replacement that adds the given tools to the registry the handler has
NextRegistryUpdate(old, given) ==
    IF given = None THEN old
    ELSE IF IsDict(old) THEN DictUpdate(old, given) ELSE given

\* lines 109-110: the registry of the handler after the 'tools' argument
NextRegistry(old, given) == IF given # None THEN set_tools(given) ELSE old

\* a guard that lets an empty registry pass
HasToolsNotNone(registry) == registry # None

\* line 111: not self._tool_registry
HasTools(registry) == Truthy(registry)

\* lines 117-120: the metadata the manifest describes a tool with
ManifestMetadata(func) ==
    IF func.api_metadata # None THEN func.api_metadata ELSE func.fallback

\* a coercion that falls back to 'api_metadata' as the manifest does
coercion_metadata_fallback(func) ==
    IF func.api_metadata # None THEN func.api_metadata ELSE func.fallback

\* line 218: getattr(tool_func, '__api_metadata__', None)
CoercionMetadata(func) == func.api_metadata

\* lines 121-142: the manifest entry of one tool
ToolInfo(name, func) ==
    LET api == ManifestMetadata(func) IN
    IF api = None
    THEN [tool_name |-> name, method |-> Str("UNKNOWN"), path |-> Str("UNKNOWN"),
          parameters |-> <<>>]
    ELSE [tool_name |-> name, method |-> DictGet(api, "method", None),
          path |-> DictGet(api, "full_path", None),
          parameters |-> [n \in 1..Len(DictGet(api, "parameters", EmptyList).l) |->
                             DictGet(api, "parameters", EmptyList).l[n].d["name"]]]

\* lines 115-142: one manifest entry per registered tool, under its name
BuildToolInfos(registry) ==
    [name \in DOMAIN registry.d |-> ToolInfo(name, registry.d[name])]

\* a lookup that hands out some registered tool whatever the name
registry_get_any(registry, key) ==
    registry.d[CHOOSE name \in DOMAIN registry.d : TRUE]

\* line 213: self._tool_registry.get(tool_name); a dict or a list is unhashable
registry_get(registry, key) ==
    IF IsDict(key) \/ IsList(key) THEN Raise("TypeError")
    ELSE IF IsStr(key) /\ key.s[1] \in DOMAIN registry.d THEN registry.d[key.s[1]]
    ELSE None

NoToolsAvailable == [ret |-> "No tools available for query."]
NoValidJson == [ret |-> "No valid JSON object found in LLM response"]
NoMatchingTool == [ret |-> "No matching API tool found for your query."]
ToolNotFound(name) == [ret |-> "Tool not found.", tool |-> name]
ErrorProcessing(cls) == [ret |-> "Error processing LLM response", error |-> cls]
ToolCalled(name) == [ret |-> "Tool called", tool |-> name]

\* structured completions: the plan object the prompt asks for
Plan(tool, parameters, body) ==
    <<"{", "tool_name">> \o tool \o <<",", "parameters">> \o parameters
        \o <<",", "request_body">> \o body \o <<"}">>
RawLiterals == {"'42'", "'abc'", "'4.5'", "42", "4.5", "1.0", "2", "1", "0", "true", "null",
                "'YES'", "'True'", "'1'", "'no'", "'FALSE'", "'0'", "'maybe'", "[1]"}
ParameterKeys == {"limit", "ratio", "active", "tag", "q", "extra"}
ParameterTexts ==
    {<<"{", k, raw, "}">> : k \in ParameterKeys, raw \in RawLiterals}
    \cup {<<"{", "}">>, <<"null">>, <<"'abc'">>, <<"[1]">>,
          <<"{", "limit", "'42'", ",", "active", "'YES'", "}">>,
          <<"{", "limit", "'abc'", ",", "ratio", "'4.5'", "}">>}
RegisteredNames == {<<"'GET__accounts'">>, <<"'POST__accounts'">>, <<"'PUT__accounts'">>}
OtherNames == {<<"'DELETE__accounts'">>, <<"null">>, <<"['GET__accounts']">>,
               <<"{", "k", "v", "}">>}
BodyTexts == {<<"null">>, <<"{", "k", "v", "}">>}
Completions ==
    {Plan(t, ps, body) : t \in RegisteredNames, ps \in ParameterTexts, body \in BodyTexts}
    \cup {Plan(t, <<"{", "limit", "'42'", "}">>, body) : t \in OtherNames, body \in BodyTexts}
    \cup {<<"{", "tool_name">> \o t \o <<"}">> : t \in RegisteredNames \cup OtherNames}
    \cup {<<"{", "parameters", "{", "limit", "'42'", "}", "}">>,
          <<"null">>,
          <<"x", "{", "k", "}">> \o Plan(<<"'GET__accounts'">>, <<"{", "}">>, <<"null">>)}

\* the plans a completion gives when several queries are followed
PlanCompletions ==
    {Plan(t, <<"{", "limit", "'42'", "}">>, <<"null">>) : t \in RegisteredNames \cup OtherNames}
    \cup {Plan(<<"'POST__accounts'">>, <<"[1]">>, <<"null">>),
          Plan(<<"'GET__accounts'">>, <<"[1]">>, <<"null">>),
          <<"null">>, <<"{", "}">>}

\* bound: the queries one handler serves in a run of the model
MaxQueries == 3

planVars == <<tool_name, params, req_body, invoked, tool_func>>
callVars == <<tools, tool_infos, queries>>

\* lines 109-145: set_tools when tools are given; without a registry the run
\* ends before the completion call, with one the manifest is built (a
\* registry with a tool always gives a manifest entry, so line 145 is dead)
SetTools ==
    /\ llm_pc = "start"
    /\ \E given \in ToolsArguments : tools' = given
    /\ tool_registry' = NextRegistry(tool_registry, tools')
    /\ IF HasTools(tool_registry')
       THEN /\ tool_infos' = BuildToolInfos(tool_registry')
            /\ llm_pc' = "select" /\ UNCHANGED llm_out
       ELSE llm_pc' = "no_tools" /\ llm_out' = NoToolsAvailable /\ UNCHANGED tool_infos
    /\ UNCHANGED <<content, json_candidates, json_str, result, planVars, chat_calls, queries>>

\* lines 158-167: the completion call returns the text
CallLLM ==
    /\ llm_pc = "select"
    /\ \E text \in Texts \cup Completions : content' = text
    /\ chat_calls' = chat_calls + 1
    /\ llm_pc' = "extract"
    /\ UNCHANGED <<json_candidates, json_str, result, llm_out, tool_registry, planVars,
                   callVars>>

\* lines 158-167: the completion call returns a plan, '{}' or 'null'
CallLLMPlan ==
    /\ llm_pc = "select"
    /\ \E text \in PlanCompletions : content' = text
    /\ chat_calls' = chat_calls + 1
    /\ llm_pc' = "extract"
    /\ UNCHANGED <<json_candidates, json_str, result, llm_out, tool_registry, planVars,
                   callVars>>

\* lines 158-165: ollama.chat raises (the service is down); the call stands
\* before the try of line 166
CallLLMFails ==
    /\ llm_pc = "select"
    /\ llm_out' = Raise("ConnectionError")
    /\ chat_calls' = chat_calls + 1
    /\ llm_pc' = "raised"
    /\ UNCHANGED <<content, json_candidates, json_str, result, tool_registry, planVars,
                   callVars>>

\* line 193
ExtractCandidates ==
    /\ llm_pc = "extract"
    /\ json_candidates' = extract_all_json(content)
    /\ llm_pc' = "parse"
    /\ UNCHANGED <<content, json_str, result, llm_out, tool_registry, planVars,
                   callVars, chat_calls>>

\* lines 195-206: no candidate parses
ParseNone ==
    /\ llm_pc = "parse"
    /\ FirstParsing(json_candidates) = 0
    /\ llm_out' = NoValidJson
    /\ llm_pc' = "done"
    /\ UNCHANGED <<content, json_candidates, json_str, result, tool_registry, planVars,
                   callVars, chat_calls>>

\* lines 195-209: the first candidate that parses is taken; an empty object
\* ends the run, anything else goes on to the tool lookup of line 210
ParseFirst ==
    /\ llm_pc = "parse"
    /\ FirstParsing(json_candidates) # 0
    /\ json_str' = Chars(json_candidates[FirstParsing(json_candidates)])
    /\ result' = json_loads(json_str'.chars)
    /\ IF Truthy(result')
       THEN llm_pc' = "lookup" /\ UNCHANGED llm_out
       ELSE llm_pc' = "done" /\ llm_out' = NoMatchingTool
    /\ UNCHANGED <<content, json_candidates, tool_registry, planVars, callVars, chat_calls>>

\* lines 210-216: the plan is read and the tool looked up in the registry the
\* handler holds at that moment
Lookup ==
    /\ llm_pc = "lookup"
    /\ tool_name' = DictGet(result, "tool_name", None)
    /\ params' = DictGet(result, "parameters", EmptyDict)
    /\ req_body' = DictGet(result, "request_body", None)
    /\ tool_func' = registry_get(tool_registry, tool_name')
    /\ IF IsExc(tool_func')
       THEN llm_pc' = "done" /\ llm_out' = ErrorProcessing(tool_func'.exc)
       ELSE IF tool_func' = None
       THEN llm_pc' = "done" /\ llm_out' = ToolNotFound(tool_name')
       ELSE llm_pc' = "coerce" /\ UNCHANGED llm_out
    /\ UNCHANGED <<content, json_candidates, json_str, result, tool_registry, invoked,
                   callVars, chat_calls>>

\* lines 217-244: the parameters are cast when the tool carries metadata
Coerce ==
    /\ llm_pc = "coerce"
    /\ LET api_meta == CoercionMetadata(tool_func)
           coerced == IF Truthy(api_meta) THEN CoerceParams(api_meta, params) ELSE params
       IN IF IsExc(coerced)
          THEN llm_pc' = "done" /\ llm_out' = ErrorProcessing(coerced.exc)
               /\ UNCHANGED params
          ELSE llm_pc' = "invoke" /\ params' = coerced /\ UNCHANGED llm_out
    /\ UNCHANGED <<content, json_candidates, json_str, result, tool_registry,
                   tool_name, req_body, invoked, tool_func, callVars, chat_calls>>

\* lines 246-248 and 252-254: the keyword arguments cannot be built
InvokeFails ==
    /\ llm_pc = "invoke"
    /\ IsExc(BuildKwargs(params, req_body))
    /\ llm_out' = ErrorProcessing(BuildKwargs(params, req_body).exc)
    /\ llm_pc' = "done"
    /\ UNCHANGED <<content, json_candidates, json_str, result, tool_registry, planVars,
                   callVars, chat_calls>>

\* lines 246-254: tool_func(**kwargs) is called; it returns or raises
InvokeTool ==
    /\ llm_pc = "invoke"
    /\ ~IsExc(BuildKwargs(params, req_body))
    /\ invoked' = Append(invoked, [tool |-> tool_name, func |-> tool_func,
                                   kwargs |-> BuildKwargs(params, req_body)])
    /\ \E raises \in BOOLEAN :
          llm_out' = IF raises THEN ErrorProcessing("ToolError") ELSE ToolCalled(tool_name)
    /\ llm_pc' = "done"
    /\ UNCHANGED <<content, json_candidates, json_str, result, tool_registry,
                   tool_name, params, req_body, tool_func, callVars, chat_calls>>

\* main.py line 56: the handler is asked the next query; the locals of the
\* finished call are gone, the registry of the handler stays
NextQuery ==
    /\ llm_pc \in {"no_tools", "raised", "done"}
    /\ queries < MaxQueries
    /\ queries' = queries + 1
    /\ content' = <<>> /\ json_candidates' = <<>> /\ json_str' = Unset /\ result' = Unset
    /\ llm_out' = Unset /\ llm_pc' = "start"
    /\ tool_name' = Unset /\ params' = Unset /\ req_body' = Unset /\ invoked' = <<>>
    /\ tools' = Unset /\ tool_infos' = Unset /\ tool_func' = Unset /\ chat_calls' = 0
    /\ UNCHANGED tool_registry

\* lines 15-16: another thread calls set_tools on the same handler while the
\* query runs
ConcurrentSetTools ==
    /\ llm_pc \in {"select", "extract", "parse", "lookup", "coerce", "invoke"}
    /\ \E registry \in {EmptyDict, ToolRegistry, ReplacementRegistry} :
          /\ registry # tool_registry
          /\ tool_registry' = set_tools(registry)
    /\ UNCHANGED <<content, json_candidates, json_str, result, llm_out, llm_pc,
                   planVars, callVars, chat_calls>>

LlmNext ==
    \/ SetTools /\ UNCHANGED <<schemaVars, extractVars, invokeVars>>
    \/ CallLLM /\ UNCHANGED <<schemaVars, extractVars, invokeVars>>
    \/ CallLLMFails /\ UNCHANGED <<schemaVars, extractVars, invokeVars>>
    \/ ExtractCandidates /\ UNCHANGED <<schemaVars, extractVars, invokeVars>>
    \/ ParseNone /\ UNCHANGED <<schemaVars, extractVars, invokeVars>>
    \/ ParseFirst /\ UNCHANGED <<schemaVars, extractVars, invokeVars>>
    \/ Lookup /\ UNCHANGED <<schemaVars, extractVars, invokeVars>>
    \/ Coerce /\ UNCHANGED <<schemaVars, extractVars, invokeVars>>
    \/ InvokeFails /\ UNCHANGED <<schemaVars, extractVars, invokeVars>>
    \/ InvokeTool /\ UNCHANGED <<schemaVars, extractVars, invokeVars>>

\* the queries of one handler, one after the other
SessionNext ==
    \/ SetTools /\ UNCHANGED <<schemaVars, extractVars, invokeVars>>
    \/ CallLLMPlan /\ UNCHANGED <<schemaVars, extractVars, invokeVars>>
    \/ CallLLMFails /\ UNCHANGED <<schemaVars, extractVars, invokeVars>>
    \/ ExtractCandidates /\ UNCHANGED <<schemaVars, extractVars, invokeVars>>
    \/ ParseNone /\ UNCHANGED <<schemaVars, extractVars, invokeVars>>
    \/ ParseFirst /\ UNCHANGED <<schemaVars, extractVars, invokeVars>>
    \/ Lookup /\ UNCHANGED <<schemaVars, extractVars, invokeVars>>
    \/ Coerce /\ UNCHANGED <<schemaVars, extractVars, invokeVars>>
    \/ InvokeFails /\ UNCHANGED <<schemaVars, extractVars, invokeVars>>
    \/ InvokeTool /\ UNCHANGED <<schemaVars, extractVars, invokeVars>>
    \/ NextQuery /\ UNCHANGED <<schemaVars, extractVars, invokeVars>>

\* the queries of one handler while another thread replaces its registry
ConcurrentNext ==
    \/ SetTools /\ UNCHANGED <<schemaVars, extractVars, invokeVars>>
    \/ CallLLMPlan /\ UNCHANGED <<schemaVars, extractVars, invokeVars>>
    \/ CallLLMFails /\ UNCHANGED <<schemaVars, extractVars, invokeVars>>
    \/ ExtractCandidates /\ UNCHANGED <<schemaVars, extractVars, invokeVars>>
    \/ ParseNone /\ UNCHANGED <<schemaVars, extractVars, invokeVars>>
    \/ ParseFirst /\ UNCHANGED <<schemaVars, extractVars, invokeVars>>
    \/ Lookup /\ UNCHANGED <<schemaVars, extractVars, invokeVars>>
    \/ Coerce /\ UNCHANGED <<schemaVars, extractVars, invokeVars>>
    \/ InvokeFails /\ UNCHANGED <<schemaVars, extractVars, invokeVars>>
    \/ InvokeTool /\ UNCHANGED <<schemaVars, extractVars, invokeVars>>
    \/ NextQuery /\ UNCHANGED <<schemaVars, extractVars, invokeVars>>
    \/ ConcurrentSetTools /\ UNCHANGED <<schemaVars, extractVars, invokeVars>>

LlmInit ==
    /\ content = <<>> /\ json_candidates = <<>> /\ json_str = Unset /\ result = Unset
    /\ llm_out = Unset /\ llm_pc = "start"
    /\ tool_registry = None /\ tool_name = Unset /\ params = Unset
    /\ req_body = Unset /\ invoked = <<>>
    /\ tools = Unset /\ tool_infos = Unset /\ tool_func = Unset
    /\ chat_calls = 0 /\ queries = 1
    /\ invoker = "none" /\ http_method = "GET" /\ full_path = <<>> /\ param_values = Unset
    /\ request_body_dict = Unset
    /\ url = Unset /\ http_requests = <<>> /\ http_outcome = Unset
    /\ api_result = Unset /\ inv_pc = "idle"
    /\ components = EmptyDict /\ schema_in = EmptyDict
    /\ body_res = Unset /\ resp_res = Unset /\ parser_res = Unset /\ ref_res = Unset
    /\ again_res = Unset
    /\ doc = None /\ apis = Unset /\ py_pc = "idle"
    /\ uploaded_files = <<>> /\ apis_table = <<>> /\ collection = <<>> /\ uploads = 0

SpecLLM == LlmInit /\ [][LlmNext]_vars
SpecSession == LlmInit /\ [][SessionNext]_vars
SpecConcurrent == LlmInit /\ [][ConcurrentNext]_vars

----------------------------------------------------------------------------
(* Parse-step claims *)

Opens(i, j) == Cardinality({m \in i..j : content[m] = "{"})
Closes(i, j) == Cardinality({m \in i..j : content[m] = "}"})
\* content[i..j] is brace-delimited and balanced: j closes the brace at i
Balanced(i, j) ==
    /\ i < j /\ content[i] = "{" /\ content[j] = "}"
    /\ Opens(i, j) = Closes(i, j)
    /\ \A m \in i..(j - 1) : Opens(i, m) > Closes(i, m)
Span(i, j) == SubSeq(content, i, j)
Parses(i, j) == ~IsExc(json_loads(Span(i, j)))
Indices == 1..Len(content)
ParseDone == llm_pc \in {"lookup", "coerce", "invoke", "done"}

\* the balanced brace-delimited substrings that parse, wherever they lie
ParsingSpans == {ij \in Indices \X Indices : Balanced(ij[1], ij[2]) /\ Parses(ij[1], ij[2])}

\* the brace at i is at nesting depth zero and every brace before it is closed
TopLevel(i) ==
    \A e \in 1..(i - 1) : content[e] = "{" => \E j \in (e + 1)..(i - 1) : Balanced(e, j)
\* the depth-zero balanced substrings that parse
ParsingCandidates == {ij \in ParsingSpans : TopLevel(ij[1])}

Leftmost(spans) == CHOOSE ij \in spans : \A other \in spans : ij[1] <= other[1]

\* C10 as claimed: the Parse step returns the first balanced brace-delimited
\* substring of the text that parses, and fails only if none parses.
C10_FirstBalancedSubstring ==
    ParseDone =>
      IF ParsingSpans = {} THEN llm_out = NoValidJson
      ELSE /\ llm_out # NoValidJson
           /\ json_str = Chars(Span(Leftmost(ParsingSpans)[1], Leftmost(ParsingSpans)[2]))

\* C10 amended: the Parse step returns the first depth-zero balanced
\* brace-delimited substring that parses, and fails exactly if none of the
\* depth-zero substrings parses.
C10_FirstTopLevelCandidate ==
    ParseDone =>
      IF ParsingCandidates = {} THEN llm_out = NoValidJson /\ json_str = Unset
      ELSE /\ llm_out # NoValidJson
           /\ json_str = Chars(Span(Leftmost(ParsingCandidates)[1], Leftmost(ParsingCandidates)[2]))
           /\ result = json_loads(json_str.chars)

\* prose, then a candidate that does not parse, then the one that is returned
C10_Witness ==
    /\ ParseDone /\ Len(json_candidates) = 2 /\ content[1] = "x"
    /\ IsExc(json_loads(json_candidates[1]))
    /\ json_str = Chars(json_candidates[2])

----------------------------------------------------------------------------
(* get_response claims: failure policy, lookup, coercion *)

Finished == llm_pc \in {"no_tools", "raised", "done"}
Called == Len(invoked) >= 1
\* the plan as the parsed object gives it
RawName == IF IsDict(result) THEN DictGet(result, "tool_name", None) ELSE None
RawParams == IF IsDict(result) THEN DictGet(result, "parameters", EmptyDict) ELSE EmptyDict
Registered(name) == IsStr(name) /\ name.s[1] \in DOMAIN tool_registry.d
Parsed == json_str # Unset /\ IsDict(result)

\* C11: a failure of the completion call, of the Parse step or of the Coerce
\* step is never raised out of get_response: every finished run, whatever the
\* completion call did, has returned a value to the caller, and a 'parameters'
\* that is null or no mapping gives an error value.
C11_FailuresAreReturned ==
    Finished =>
      /\ ~IsExc(llm_out) /\ "ret" \in DOMAIN llm_out
      /\ (Parsed /\ Registered(RawName) /\ RawParams = None)
            => llm_out \in {ErrorProcessing("AttributeError")}

\* C12: in every run the selected tool is invoked at most once, and only after
\* a candidate parsed, was non-empty and named a registered tool; a run whose
\* selection, parsing or lookup failed has invoked nothing.
C12_NoPartialInvocation ==
    /\ Len(invoked) <= 1
    /\ Called => /\ Parsed /\ result = json_loads(json_str.chars) /\ Truthy(result)
                 /\ Registered(RawName) /\ invoked[1].tool = RawName
    /\ (\/ llm_pc \in {"no_tools", "raised"}
        \/ llm_out \in {NoValidJson, NoMatchingTool}
        \/ (Parsed /\ Truthy(result) /\ ~Registered(RawName))) => ~Called

\* a prose prefix, a candidate that does not parse, then the plan whose tool ran
C12_Witness ==
    /\ llm_pc = "done" /\ Called /\ Len(json_candidates) = 2
    /\ IsExc(json_loads(json_candidates[1]))
    /\ llm_out = ToolCalled(Str("GET__accounts"))

\* C13: when the tool name of the parsed object matches no registered tool,
\* the run ends with the unknown-tool error naming that tool, the parameters
\* are not coerced and no tool is invoked.
C13_UnknownToolError ==
    (llm_pc = "done" /\ Parsed /\ Truthy(result) /\ ~Registered(RawName)) =>
      /\ llm_out = ToolNotFound(RawName)
      /\ params = RawParams
      /\ ~Called

\* the completion is the explicit signal that no tool applies
NullSignal == content = <<"null">> \/ (Parsed /\ result = EmptyDict)
\* the completion holds no object that parses
Unparseable == content # <<"null">> /\ ParsingCandidates = {}
NamesUnknownTool == Parsed /\ Truthy(result) /\ ~Registered(RawName)

\* C14: the null/empty signal is reported as 'no tool matched', a completion
\* without a parseable object as unparseable, an unregistered tool name as
\* 'tool not found', and none of the three messages is used for another
\* condition.
C14_DistinctMessages ==
    llm_pc = "done" =>
      /\ NullSignal <=> llm_out = NoMatchingTool
      /\ Unparseable <=> llm_out = NoValidJson
      /\ NamesUnknownTool <=> llm_out = ToolNotFound(RawName)

\* the keyword arguments of the call, and the type the called tool declares
Kwargs == invoked[1].kwargs
DeclaredType(k) ==
    LET api_meta == tool_registry.d[invoked[1].tool.s[1]].api_metadata IN
    IF api_meta = None THEN None
    ELSE DictGet(ParamSchema(api_meta, k), "type", None)

\* a value that is an integer numeral (or an integral number), resp. a
\* decimal numeral (or a number)
IntegerNumeral(raw) == IsStr(raw) /\ AllDigits(Spelling[raw.s[1]])
DecimalNumeral(raw) ==
    /\ IsStr(raw)
    /\ LET cs == Spelling[raw.s[1]] IN
       \E dot \in 1..Len(cs) : /\ cs[dot] = "." /\ AllDigits(SubSeq(cs, 1, dot - 1))
                               /\ AllDigits(SubSeq(cs, dot + 1, Len(cs)))
ParsedInteger(raw) ==
    IF IntegerNumeral(raw) THEN PyInt(DecimalValue(Spelling[raw.s[1]]))
    ELSE IF IsFloat(raw) /\ raw.f % 10 = 0 THEN PyInt(raw.f \div 10)
    ELSE raw
ParsedNumber(raw) ==
    IF IntegerNumeral(raw) THEN PyFloat(10 * DecimalValue(Spelling[raw.s[1]]))
    ELSE IF DecimalNumeral(raw)
    THEN LET cs == Spelling[raw.s[1]] IN
         PyFloat(10 * DecimalValue(SubSeq(cs, 1, Len(cs) - 2)) + DigitValue(cs[Len(cs)]))
    ELSE IF "i" \in DOMAIN raw THEN PyFloat(10 * raw.i)
    ELSE raw

\* C15: for a parameter declared 'integer' (resp. 'number') a raw value that
\* parses as an integer (resp. float) reaches the tool as the parsed number,
\* any other raw value reaches it unchanged; no parameter is dropped and the
\* tool of a well-formed plan is invoked whatever the values are.
C15_NumericCoercion ==
    /\ (llm_pc = "done" /\ Parsed /\ Registered(RawName) /\ IsDict(RawParams)) => Called
    /\ Called =>
         \A k \in DOMAIN RawParams.d :
            /\ k \in DOMAIN Kwargs.d
            /\ DeclaredType(k) = Str("integer") => Kwargs.d[k] = ParsedInteger(RawParams.d[k])
            /\ DeclaredType(k) = Str("number") => Kwargs.d[k] = ParsedNumber(RawParams.d[k])

ExpectTrue == {Str("YES"), Str("True"), Str("1"), PyInt(1)}
ExpectFalse == {Str("no"), Str("FALSE"), Str("0"), PyInt(0)}

\* C16: a parameter declared 'boolean' reaches the tool as true for
\* true/1/yes and as false for false/0/no in any case, and unchanged for any
\* other value; a parameter whose type is unknown or absent, or that the tool
\* does not declare, reaches the tool unchanged.
C16_BooleanAndUntyped ==
    Called =>
      \A k \in DOMAIN RawParams.d :
         /\ k \in DOMAIN Kwargs.d
         /\ DeclaredType(k) = Str("boolean") =>
               Kwargs.d[k] = IF RawParams.d[k] \in ExpectTrue THEN Bool(TRUE)
                             ELSE IF RawParams.d[k] \in ExpectFalse THEN Bool(FALSE)
                             ELSE RawParams.d[k]
         /\ DeclaredType(k) \notin {Str("integer"), Str("number"), Str("boolean")} =>
               Kwargs.d[k] = RawParams.d[k]

\* 'YES' given for the boolean parameter next to a coerced integer
C16_Witness ==
    /\ llm_pc = "done" /\ Called
    /\ RawParams = Dict("limit" :> Str("42") @@ "active" :> Str("YES"))
    /\ Kwargs = Dict("limit" :> PyInt(42) @@ "active" :> Bool(TRUE))

----------------------------------------------------------------------------
(* The invokers: URL substitution and the HTTP call *)

\* A URL template is a sequence of tokens: literal text (without braces) and
\* '{name}' placeholders.
Lit(text) == [lit |-> text]
Ph(name) == [ph |-> name]
IsPh(token) == "ph" \in DOMAIN token

\* how the placeholder names are spelled (letters, digits, '_' and '.')
NameSpelling ==
    ("account_id" :> <<"a", "c", "c", "o", "u", "n", "t", "_", "i", "d">>)
    @@ ("policy_id" :> <<"p", "o", "l", "i", "c", "y", "_", "i", "d">>)
    @@ ("id" :> <<"i", "d">>)
    @@ ("a.b" :> <<"a", ".", "b">>) @@ ("axb" :> <<"a", "x", "b">>)

\* str(value) of a supplied value (the numbers of the model have one digit)
Text(value) ==
    IF "i" \in DOMAIN value THEN Digits[value.i + 1]
    ELSE IF IsStr(value) THEN value.s[1]
    ELSE IF IsBool(value) THEN (IF value.b THEN "True" ELSE "False")
    ELSE "None"

\* llm_handler.py line 24: re.findall(r'\{([^{}]*)\}', full_path), in order
url_param_matches(path) ==
    LET places == {n \in 1..Len(path) : IsPh(path[n])}
        Rank(n) == Cardinality({m \in places : m <= n})
    IN [r \in 1..Cardinality(places) |-> path[CHOOSE n \in places : Rank(n) = r].ph]

\* line 61: the name is put into the pattern as it is, so that a '.' of the
\* name is the regular-expression wildcard
RegexMatches(param_name, name) ==
    LET pattern == NameSpelling[param_name]
        chars == NameSpelling[name]
    IN /\ Len(pattern) = Len(chars)
       /\ \A n \in 1..Len(pattern) : pattern[n] = "." \/ pattern[n] = chars[n]

\* line 61: re.sub(r'\{' + param_name + r'\}', str(param_value), modified_path)
re_sub(param_name, param_value, modified_path) ==
    [n \in 1..Len(modified_path) |->
        IF IsPh(modified_path[n]) /\ RegexMatches(param_name, modified_path[n].ph)
        THEN Lit(Text(param_value))
        ELSE modified_path[n]]

RECURSIVE ReplaceLoop(_, _, _)
\* lines 57-61: one pass over the placeholder names; a name without a value
\* (absent or null) is skipped
ReplaceLoop(names, values, modified_path) ==
    IF names = <<>> THEN modified_path
    ELSE LET param_value == DictGet(values, Head(names), None) IN
         ReplaceLoop(Tail(names), values,
                     IF param_value # None
                     THEN re_sub(Head(names), param_value, modified_path)
                     ELSE modified_path)

\* lines 18-63: the modified path
replace_url_parameters(path, values) ==
    IF url_param_matches(path) = <<>> THEN path
    ELSE ReplaceLoop(url_param_matches(path), values, path)

\* full_url.replace(f"{{{param}}}", str(value)): the exact name only
str_replace(param, value, path) ==
    [n \in 1..Len(path) |->
        IF IsPh(path[n]) /\ path[n].ph = param THEN Lit(Text(value)) ELSE path[n]]

RECURSIVE ReplaceItems(_, _, _)
\* operations_genaie.py lines 246-248, archive/APIExecutor.py lines 51-52:
\* every supplied item is substituted, a null value as 'None'
ReplaceItems(todo, values, path) ==
    IF todo = {} THEN path
    ELSE LET param == CHOOSE name \in todo : TRUE IN
         ReplaceItems(todo \ {param}, values, str_replace(param, values.d[param], path))

\* what the HTTP library does with a request: it raises (no response was
\* received) or it hands back a response with a status and a body that is
\* empty, JSON or other text
Outcomes ==
    {[kind |-> "failure"]}
    \cup {[kind |-> "response", status |-> st, body |-> b] :
             st \in {200, 404, 500}, b \in {"empty", "json", "text"}}
Received(outcome) == outcome.kind = "response"
ResponseHeaders == Dict("Content-Type" :> Str("application/json"))
JsonBody == Dict("id" :> PyInt(1))
\* response.json()
response_json(outcome) == IF outcome.body = "json" THEN JsonBody ELSE Raise("JSONDecodeError")
\* a request as the HTTP library is given it; json = None sends no body
Request(verb, target, data) == [method |-> verb, url |-> target, json |-> data]

\* main.py lines 164-167: data = None, and the plan's body for POST and PUT
call_api_data(verb, body) ==
    IF verb \in {"POST", "PUT"} /\ body # Unset THEN body ELSE None

\* operations_genaie.py line 255: api_request.get('request_body', {})
execute_api_request_json(body) == IF body = Unset THEN EmptyDict ELSE body

\* archive/APIExecutor.py lines 60-61: the 'json' argument is given only for
\* a truthy body
archive_request_json(body) == IF body # Unset /\ Truthy(body) THEN body ELSE None

\* main.py lines 151-188: what call_api returns for an outcome of the request
call_api(outcome) ==
    LET body == IF outcome.body # "empty" THEN response_json(outcome) ELSE None IN
    IF ~Received(outcome)
    THEN Dict("error" :> Str("ConnectionError") @@ "status_code" :> PyInt(500))
    ELSE IF IsExc(body)
    THEN Dict("error" :> Str(body.exc) @@ "status_code" :> PyInt(500))
    ELSE Dict("status_code" :> PyInt(outcome.status) @@ "headers" :> ResponseHeaders
              @@ "body" :> body)

\* operations_genaie.py lines 258-280: the parsed body, or None on any failure
execute_api_request(outcome) ==
    IF ~Received(outcome) \/ IsExc(response_json(outcome)) THEN None
    ELSE response_json(outcome)

\* archive/APIExecutor.py lines 63-72
archive_execute_api_request(outcome) ==
    LET body == IF outcome.body # "empty" THEN response_json(outcome) ELSE EmptyDict IN
    IF ~Received(outcome) THEN Dict("error" :> Str("ConnectionError"))
    ELSE IF IsExc(body) THEN Dict("error" :> Str(body.exc))
    ELSE Dict("status_code" :> PyInt(outcome.status) @@ "body" :> body)

\* operations_genaie.py lines 241-242
LocalBase == Lit("http://localhost:8000")
\* operations_genaie.py lines 261-268
SupportedMethods == {"GET", "POST", "PUT", "DELETE"}

\* URL templates and the values supplied for their placeholders
Templates ==
    {<<Lit("/accounts")>>,
     <<Lit("/accounts/"), Ph("account_id"), Lit("/policies/"), Ph("policy_id")>>,
     <<Lit("/a/"), Ph("id"), Lit("/b/"), Ph("id")>>,
     <<Lit("/v1/"), Ph("a.b"), Lit("/"), Ph("axb")>>,
     <<Lit("/v1/"), Ph("axb"), Lit("/"), Ph("a.b")>>}
NamesOf(path) == {path[n].ph : n \in {m \in 1..Len(path) : IsPh(path[m])}}
ValueOf == ("account_id" :> PyInt(5)) @@ ("policy_id" :> PyInt(9)) @@ ("id" :> PyInt(0))
           @@ ("a.b" :> PyInt(1)) @@ ("axb" :> PyInt(2))
\* every way to supply a value, null, or nothing for each placeholder
ParamChoices(path) ==
    UNION {{Dict([name \in given |-> IF name \in nulls THEN None ELSE ValueOf[name]]) :
               nulls \in SUBSET given} : given \in SUBSET NamesOf(path)}
Methods == {"GET", "POST", "PUT", "DELETE", "PATCH"}
\* the request body of a plan
PlanBody == Dict("name" :> Str("x"))
\* the body key is absent, null, an empty object or an object
Bodies == {Unset, None, EmptyDict, PlanBody}

\* llm_handler.py lines 18-63: the completion supplies the values (an
\* unparseable completion supplies none) and the path is rewritten
ReplaceUrlParameters ==
    /\ inv_pc = "start" /\ invoker = "call_api"
    /\ \E values \in ParamChoices(full_path) :
          /\ param_values' = values
          /\ url' = replace_url_parameters(full_path, values)
    /\ inv_pc' = "call"
    /\ UNCHANGED <<invoker, http_method, full_path, request_body_dict, http_requests,
                   http_outcome, api_result>>

\* main.py lines 151-188: the request goes to the URL it is given
CallApi ==
    /\ inv_pc = "call" /\ invoker = "call_api"
    /\ http_requests' = Append(http_requests,
                                Request(http_method, url,
                                        call_api_data(http_method, request_body_dict)))
    /\ \E outcome \in Outcomes :
          /\ http_outcome' = outcome
          /\ api_result' = call_api(outcome)
    /\ inv_pc' = "done"
    /\ UNCHANGED <<invoker, http_method, full_path, param_values, request_body_dict, url>>

\* operations_genaie.py lines 240-280
ExecuteApiRequest ==
    /\ inv_pc = "start" /\ invoker = "operations_genaie"
    /\ \E values \in ParamChoices(full_path) :
          /\ param_values' = values
          /\ url' = ReplaceItems(DOMAIN values.d, values, <<LocalBase>> \o full_path)
    /\ IF http_method \in SupportedMethods
       THEN /\ http_requests' =
                  Append(http_requests,
                         Request(http_method, url',
                                 execute_api_request_json(request_body_dict)))
            /\ \E outcome \in Outcomes :
                  /\ http_outcome' = outcome
                  /\ api_result' = execute_api_request(outcome)
       ELSE /\ api_result' = None
            /\ UNCHANGED <<http_requests, http_outcome>>
    /\ inv_pc' = "done"
    /\ UNCHANGED <<invoker, http_method, full_path, request_body_dict>>

\* archive/APIExecutor.py lines 47-72
ArchiveExecuteApiRequest ==
    /\ inv_pc = "start" /\ invoker = "archive"
    /\ \E values \in ParamChoices(full_path) :
          /\ param_values' = values
          /\ url' = ReplaceItems(DOMAIN values.d, values, full_path)
    /\ http_requests' = Append(http_requests,
                                Request(http_method, url',
                                        archive_request_json(request_body_dict)))
    /\ \E outcome \in Outcomes :
          /\ http_outcome' = outcome
          /\ api_result' = archive_execute_api_request(outcome)
    /\ inv_pc' = "done"
    /\ UNCHANGED <<invoker, http_method, full_path, request_body_dict>>

InvokeNext ==
    \/ ReplaceUrlParameters /\ UNCHANGED <<schemaVars, extractVars, llmVars>>
    \/ CallApi /\ UNCHANGED <<schemaVars, extractVars, llmVars>>
    \/ ExecuteApiRequest /\ UNCHANGED <<schemaVars, extractVars, llmVars>>
    \/ ArchiveExecuteApiRequest /\ UNCHANGED <<schemaVars, extractVars, llmVars>>

InvokeInit ==
    /\ invoker \in {"call_api", "operations_genaie", "archive"}
    /\ http_method \in Methods /\ full_path \in Templates
    /\ request_body_dict \in Bodies
    /\ param_values = Unset /\ url = Unset /\ http_requests = <<>>
    /\ http_outcome = Unset /\ api_result = Unset /\ inv_pc = "start"
    /\ components = EmptyDict /\ schema_in = EmptyDict
    /\ body_res = Unset /\ resp_res = Unset /\ parser_res = Unset /\ ref_res = Unset
    /\ again_res = Unset
    /\ doc = None /\ apis = Unset /\ py_pc = "idle"
    /\ uploaded_files = <<>> /\ apis_table = <<>> /\ collection = <<>> /\ uploads = 0
    /\ content = <<>> /\ json_candidates = <<>> /\ json_str = Unset /\ result = Unset
    /\ llm_out = Unset /\ llm_pc = "idle"
    /\ tool_registry = None /\ tool_name = Unset /\ params = Unset
    /\ req_body = Unset /\ invoked = <<>>
    /\ tools = Unset /\ tool_infos = Unset /\ tool_func = Unset
    /\ chat_calls = 0 /\ queries = 0

SpecInvoke == InvokeInit /\ [][InvokeNext]_vars

----------------------------------------------------------------------------
(* Invoker claims *)

Substituted == inv_pc \in {"call", "done"}
InvokerReturned == inv_pc = "done"
\* the placeholders of the template for which no value was supplied
MissingNames == {name \in NamesOf(full_path) : DictGet(param_values, name, None) = None}
HasPlaceholder(target) == \E n \in 1..Len(target) : IsPh(target[n])
NamesParameter(res, name) ==
    IsDict(res) /\ HasKey(res, "error") /\ res.d["error"] = Str(name)

\* C17: a call whose template has a placeholder without a supplied value is
\* rejected with a failure naming the missing parameter, and no HTTP request
\* is issued to a URL that still holds a '{...}' token.
C17_MissingParameterRejected ==
    /\ \A r \in 1..Len(http_requests) : ~HasPlaceholder(http_requests[r].url)
    /\ (InvokerReturned /\ MissingNames # {}) =>
          /\ http_requests = <<>>
          /\ \E name \in MissingNames : NamesParameter(api_result, name)

\* the template with every placeholder replaced by the value supplied for it
ExpectedUrl ==
    (IF invoker = "operations_genaie" THEN <<LocalBase>> ELSE <<>>)
    \o [n \in 1..Len(full_path) |->
           IF IsPh(full_path[n]) THEN Lit(Text(param_values.d[full_path[n].ph]))
           ELSE full_path[n]]

\* C18: when a value is supplied for every placeholder, every placeholder of
\* the template, however many there are, is replaced by its own value and the
\* rest of the template is unchanged.
C18_SubstitutionComplete ==
    (Substituted /\ MissingNames = {}) => url = ExpectedUrl

TransportFailed == InvokerReturned /\ http_outcome # Unset /\ ~Received(http_outcome)

\* C19: on a transport failure the invoker returns an error object whose
\* status_code is null and whose error field carries the failure message.
C19_TransportFailureIsErrorObject ==
    TransportFailed =>
      /\ IsDict(api_result)
      /\ HasKey(api_result, "error") /\ IsStr(api_result.d["error"])
      /\ HasKey(api_result, "status_code") /\ api_result.d["status_code"] = None

ResponseReceived ==
    InvokerReturned /\ invoker = "call_api" /\ http_outcome # Unset /\ Received(http_outcome)

\* C20: every response that was received, whatever its status and whether or
\* not its body is JSON, is returned with its own status code, its headers
\* and its body, and never as an error object.
C20_ReceivedResponseIsResult ==
    ResponseReceived =>
      /\ IsDict(api_result) /\ ~HasKey(api_result, "error")
      /\ DOMAIN api_result.d = {"status_code", "headers", "body"}
      /\ api_result.d["status_code"] = PyInt(http_outcome.status)
      /\ api_result.d["headers"] = ResponseHeaders
      /\ http_outcome.body = "json" => api_result.d["body"] = JsonBody

\* the plan carries a request body / carries none
BodyPresent == request_body_dict # Unset /\ IsDict(request_body_dict) /\ Truthy(request_body_dict)
BodyAbsent == request_body_dict \in {Unset, None}

\* C21: every request call_api issues carries the plan's request body as its
\* JSON body when the plan has one, whatever the method of the operation
\* (GET, POST, PUT, DELETE, PATCH), and carries no body when the plan has none.
C21_BodySentForEveryMethod ==
    invoker = "call_api" =>
      \A r \in 1..Len(http_requests) :
         /\ BodyPresent => http_requests[r].json = request_body_dict
         /\ BodyAbsent => http_requests[r].json = None

----------------------------------------------------------------------------
(* Registry claims *)

\* the step of lines 210-216, in which the tool name is looked up
LookupStep == llm_pc = "lookup" /\ llm_pc' # "lookup"

\* C22: a query that runs while the registry is replaced sees one registry:
\* the registry in which the selected tool name is looked up (and whose tool
\* is invoked) is the registry its manifest was built from.
C22_OneConsistentRegistry ==
    [][LookupStep => /\ BuildToolInfos(tool_registry) = tool_infos
                     /\ tool_func' = registry_get(tool_registry, tool_name')]_vars

\* the query has gone past lines 109-112
Started == llm_pc \notin {"idle", "start"}
NoToolsOutcome ==
    /\ llm_pc = "no_tools" /\ llm_out = NoToolsAvailable
    /\ chat_calls = 0 /\ invoked = <<>> /\ content = <<>>

\* C26: with a registry that is unset or empty, get_response returns 'No
\* tools available for query.' without a completion call and without invoking
\* a tool; so does every query of main(), which passes no tools to a fresh
\* handler.
C26_NoRegistryNoCall ==
    /\ (Started /\ ~Truthy(tool_registry)) => NoToolsOutcome
    /\ (Started /\ queries = 1 /\ tools = None) => NoToolsOutcome

\* the query of main(): no tools passed, none ever set
C26_Witness ==
    /\ llm_pc = "no_tools" /\ tools = None /\ tool_registry = None
    /\ llm_out = NoToolsAvailable

\* the step of lines 109-110, in which get_response takes its arguments
EntryStep == llm_pc = "start" /\ llm_pc' # "start"

\* C28: get_response without a tools argument leaves the registry as it is,
\* whatever the outcome; with a tools argument the registry becomes exactly
\* that argument; no other step of a query and no later query touches it, and
\* a tool is looked up in, and invoked from, the registry then in effect.
C28_RegistryFrame ==
    /\ [](Called => invoked[1].func = registry_get(tool_registry, invoked[1].tool))
    /\ [][/\ EntryStep => tool_registry' = (IF tools' = None THEN tool_registry ELSE tools')
          /\ ~EntryStep => tool_registry' = tool_registry
          /\ LookupStep => tool_func' = registry_get(tool_registry', tool_name')]_vars

\* a second query without a tools argument runs the tool that the first
\* query's replacement brought
C28_Witness ==
    /\ queries = 2 /\ tools = None /\ Called
    /\ tool_registry = ReplacementRegistry
    /\ invoked[1].func = Tool("GET__accounts.v2", None)

\* C29: a tool without '__api_metadata__', be it described in the manifest
\* through 'api_metadata' or not at all, is called with the parameters exactly
\* as they were parsed.
C29_NoCoercionWithoutDunderMetadata ==
    (Called /\ invoked[1].func.api_metadata = None) =>
       /\ DOMAIN Kwargs.d \ {"request_body"} = DOMAIN RawParams.d
       /\ \A k \in DOMAIN RawParams.d : Kwargs.d[k] = RawParams.d[k]

\* the tool the manifest describes through 'api_metadata' as PUT accounts
\* with an integer 'limit' gets the string '42'
C29_Witness ==
    /\ Called /\ invoked[1].func = FallbackTool("PUT__accounts", PutMeta)
    /\ tool_infos["PUT__accounts"].method = Str("PUT")
    /\ tool_infos["PUT__accounts"].parameters = <<Str("limit"), Str("active")>>
    /\ RawParams = Dict("limit" :> Str("42") @@ "active" :> Str("YES"))
    /\ Kwargs = Dict("limit" :> Str("42") @@ "active" :> Str("YES"))

----------------------------------------------------------------------------
(* The brace scanner *)

Extracted == llm_pc \in {"parse", "lookup", "coerce", "invoke", "done"}
\* the brace at i is never closed
Unclosed(i) == content[i] = "{" /\ ~\E j \in Indices : Balanced(i, j)
\* the substrings from a '{' at depth zero to the '}' that closes it, found
\* before any '{' that is never closed
TopSpans == {ij \in Indices \X Indices : Balanced(ij[1], ij[2]) /\ TopLevel(ij[1])}
\* the r-th of them from the left
TopSpan(r) ==
    CHOOSE ij \in TopSpans : Cardinality({other \in TopSpans : other[1] <= ij[1]}) = r

\* C27: extract_all_json returns, from left to right, the substrings that
\* begin at a '{' at depth zero and end at the first '}' that brings the brace
\* count back to zero; they do not overlap, none lies inside another, and
\* none begins after a '{' that is never closed.
C27_ScannerCandidates ==
    Extracted =>
      /\ Len(json_candidates) = Cardinality(TopSpans)
      /\ \A r \in 1..Len(json_candidates) :
            json_candidates[r] = Span(TopSpan(r)[1], TopSpan(r)[2])
      /\ \A a \in TopSpans, b \in TopSpans : a[1] < b[1] => a[2] < b[1]
      /\ \A a \in TopSpans, e \in Indices : ~(Unclosed(e) /\ e < a[1])

\* an object, then a brace that is never closed with an object inside it
C27_Witness ==
    /\ Extracted
    /\ content = <<"{", "k", "}", "{", "{", "}">>
    /\ json_candidates = << <<"{", "k", "}">> >>

----------------------------------------------------------------------------
(* Idempotence of resolution *)

RECURSIVE HasAllOf(_)
\* an 'allOf' key is reachable somewhere inside v
HasAllOf(v) ==
    IF IsDict(v) THEN "allOf" \in DOMAIN v.d \/ \E k \in DOMAIN v.d : HasAllOf(v.d[k])
    ELSE IF IsList(v) THEN \E i \in 1..Len(v.l) : HasAllOf(v.l[i])
    ELSE FALSE
FullyResolved(v) == ~HasRef(v) /\ ~HasAllOf(v)
\* the schema the first resolution returned
FirstResolution == IF resp_res # Unset THEN resp_res ELSE parser_res

\* C25: resolving a schema without '$ref' and 'allOf' returns a schema equal
\* to it, and resolving the schema a resolution returned gives that schema
\* again.
C25_ResolutionIdempotent ==
    /\ (Returned(resp_res) /\ FullyResolved(schema_in)) => resp_res = schema_in
    /\ (Returned(parser_res) /\ FullyResolved(schema_in)) => parser_res = schema_in
    /\ again_res # Unset => again_res = FirstResolution

----------------------------------------------------------------------------
(* Extraction and re-ingestion claims *)

\* the operations of the document: the mapping-valued keys of the path items
\* that are one of the five verbs
VerbOperations == SelectSeq(DocOperations, LAMBDA e : Upper(e.method) \in FiveVerbs)
PairOf(e) == <<[s |-> e.path], Str(Upper(e.method))>>
EmittedPair(k) == <<apis.l[k].d["name"], apis.l[k].d["method"]>>
TwoOperationDocument ==
    /\ IsDict(doc)
    /\ DictGet(doc, "paths", OD(<<>>)).od =
          << <<AccountPath, OD(<< <<"get", EmptyDict>> >>)>>,
             <<AccountsPath, OD(<< <<"post", Dict("operationId" :> Str("createAccount")
                                          @@ "requestBody" :> JsonContent(RefNode("Account")))>> >>)>> >>

\* C23: the emitted Operations are the (path, method) pairs of the document,
\* each of them once and nothing else; the document with GET /accounts/{id}
\* and POST /accounts gives exactly 2.
C23_OnePerPathAndMethod ==
    Emitted =>
      /\ \A k \in 1..Len(apis.l) :
            \E e \in 1..Len(VerbOperations) : PairOf(VerbOperations[e]) = EmittedPair(k)
      /\ \A e \in 1..Len(VerbOperations) :
            Cardinality({k \in 1..Len(apis.l) : EmittedPair(k) = PairOf(VerbOperations[e])}) = 1
      /\ TwoOperationDocument => Len(apis.l) = 2

\* the identifiers of the operations of the document
OperationIds == {EmbeddingId(apis.l[k]) : k \in 1..Len(apis.l)}
\* the rows of the table, and the operations of the document, with the name
\* and method of the k-th operation
RowsOf(k) ==
    {n \in 1..Len(apis_table) : /\ apis_table[n].api_name = apis.l[k].d["name"]
                                /\ apis_table[n].method = apis.l[k].d["method"]}
OperationsLike(k) == {m \in 1..Len(apis.l) : EmittedPair(m) = EmittedPair(k)}

\* C24: however often the same document is processed, the identifiers are
\* those of the first ingestion and the records are those of one ingestion:
\* the embeddings are the ones of the operations, and the table holds a row
\* per operation as after the first ingestion.
C24_ReingestionIdempotent ==
    py_pc = "saved" =>
      /\ {collection[n].id : n \in 1..Len(collection)} = OperationIds
      /\ Len(collection) = Cardinality(OperationIds)
      /\ \A k \in 1..Len(apis.l) : Cardinality(RowsOf(k)) = Cardinality(OperationsLike(k))

FiveFields == {"name", "in", "description", "required", "schema"}
FieldDefault(field) ==
    IF field = "required" THEN Bool(FALSE)
    ELSE IF field = "schema" THEN EmptyDict
    ELSE Str("")
\* the entry that a parameter of the document gives
Defaulted(raw) ==
    Dict([field \in FiveFields |->
            IF field \in DOMAIN raw.d THEN raw.d[field] ELSE FieldDefault(field)])
\* the parameters the document declares for the k-th operation, a value that
\* is no list counting as no parameter
DeclaredParams(k) ==
    {RawPathParams(k)[i] : i \in 1..Len(RawPathParams(k))}
    \cup {RawOpParams(k)[i] : i \in 1..Len(RawOpParams(k))}

\* C30: every parameter of every emitted Operation has the five fields name,
\* in, description, required, schema and nothing else, with '' / False / {}
\* for what its declaration omits, and comes from a declared parameter; a
\* 'parameters' value that is no list gives no parameter.
C30_FiveFieldsWithDefaults ==
    Emitted =>
      \A k \in 1..Len(apis.l) :
         /\ \A i \in 1..Len(ParamsOf(k)) :
               /\ DOMAIN ParamsOf(k)[i].d = FiveFields
               /\ \E raw \in DeclaredParams(k) : ParamsOf(k)[i] = Defaulted(raw)
         /\ \A raw \in DeclaredParams(k) :
               \E i \in 1..Len(ParamsOf(k)) : EntryIdentity(ParamsOf(k)[i]) = IdentityOf(raw)
         /\ (RawPathParams(k) = <<>> /\ RawOpParams(k) = <<>>) => ParamsOf(k) = <<>>

\* path-level 'parameters' is a string, the operation declares a parameter
\* with a description only
C30_Witness ==
    /\ Emitted /\ Len(apis.l) >= 1
    /\ ODGet(DocOperations[1].item, "parameters", EmptyList) = Str("none")
    /\ RawOpParams(1) = <<ONameless>>
    /\ ParamsOf(1) = <<Dict("name" :> Str("") @@ "in" :> Str("")
                             @@ "description" :> Str("no name")
                             @@ "required" :> Bool(FALSE) @@ "schema" :> EmptyDict)>>

====
